---- MODULE Spec2Model ----
(***************************************************************************)
(* A model of mousedb's approximate-membership filters                      *)
(* (src/mousedb/src/filter.cpp): BloomFilter, CuckooFilter and CuckooMap.   *)
(*                                                                          *)
(* A key is modelled by its digest, the value std::hash<std::string_view>   *)
(* gives it: the filters read nothing else of a key.  The cuckoo filters    *)
(* draw digests from 0..MaxDigest, the Bloom filter from BloomDigests       *)
(* (64-bit values, as eight little-endian bytes).  std::hash<uint8_t> is    *)
(* the identity, as in libstdc++ and libc++.                                *)
(*                                                                          *)
(* Nine specifications share the module.  SpecBF runs a BloomFilter through *)
(* insert, contains, save and load.  SpecCF and SpecCM run a CuckooFilter   *)
(* and a CuckooMap through insert, contains and erase; SpecCFIO and         *)
(* SpecCMIO run them through insert, erase, save and load.  Each leaves the *)
(* other filters' variables alone.  A run follows one instance at a time:   *)
(* save writes the stream, the load that follows reads it, and the calls    *)
(* after it go to the loaded instance.                                      *)
(* SpecStream runs one filter of any of the three types through a few      *)
(* inserts and through streams that fail: a stream that stores only the    *)
(* first bytes of a save, and a null handle given to save or to load.       *)
(* SpecFresh runs one filter of any type through a few inserts and          *)
(* contains, from the state its constructor leaves.                         *)
(* SpecRead runs one filter of any type through a few inserts, contains    *)
(* and save.  SpecCFForeign gives the CuckooFilter constructor that reads a *)
(* stream whole streams that save did not write, whose buckets may count    *)
(* more fingerprints than a bucket has slots.                               *)
(***************************************************************************)
EXTENDS Integers, Sequences, FiniteSets, TLC

VARIABLES
    bf,          \* the BloomFilter instance: size_, hash_count_, bits_
    bfInserted,  \* history: digests passed to BloomFilter::insert
    bfFile,      \* the byte stream BloomFilter::save wrote
    bfSaved,     \* history: the instance bfFile was written from
    bfLast,      \* the last call on bf and what it returned
    cf,          \* the CuckooFilter instance
    cfInserted,  \* history: digests passed to insert, while erase was never called
    cfFailed,    \* history: one of those inserts has returned false
    cfErased,    \* history: erase has been called
    cfCalls,    \* history: number of insert, erase and open calls so far
    cfLast,      \* the last call on cf and what it returned
    cfProbe,     \* history: progress of an insert(x); erase(x); erase(x) run
    cfFile,     \* the byte stream CuckooFilter(FILE*) reads: what save or another writer wrote
    cfSaved,     \* history: the instance cfFile was written from
    cm,          \* the CuckooMap instance
    cmInserted,  \* history: digests passed to insert, while erase was never called
    cmFailed,    \* history: one of those inserts has returned false
    cmErased,    \* history: erase has been called
    cmCalls,     \* history: number of insert and erase calls so far
    cmLast,      \* the last call on cm and what it returned
    cmProbe,     \* history: progress of an insert(x); erase(x); erase(x) run
    cmFile,      \* the byte stream CuckooMap::save wrote
    cmSaved      \* history: the instance cmFile was written from

bfVars == <<bf, bfInserted, bfFile, bfSaved, bfLast>>
cfVars == <<cf, cfInserted, cfFailed, cfErased, cfCalls, cfLast, cfProbe, cfFile, cfSaved>>
cmVars == <<cm, cmInserted, cmFailed, cmErased, cmCalls, cmLast, cmProbe, cmFile, cmSaved>>
vars == <<bfVars, cfVars, cmVars>>

----------------------------------------------------------------------------
(* Bounds of the model, and the arguments the constructors are given. *)

\* cuckoo key digests are 0..MaxDigest
MaxDigest == 5
\* number of insert and erase calls in a run
MaxCalls == 4

\* the number of insert calls that build a filter whose stream fails
MaxStreamCalls == 2

\* the largest bucket_count index2 is evaluated for
MaxBuckets == 4

\* by how much the occupied_count of a bucket in a stream that save did not
\* write may exceed bucket_size
MaxOverrun == 1

Digests == 0..MaxDigest

\* the (bucket_count, bucket_size, fingerprint_size, max_kicks) a constructor is
\* given: bucket_count 1, a power of two and not a power of two; one slot and
\* several; fingerprint_size in 1..8 and outside (0, 9); max_kicks from 0 up.
\* The first is the map of the test ChainFallback.
ConstructorArgs ==
    { <<1, 1, 8, 1>>, <<2, 1, 2, 1>>, <<2, 1, 8, 0>>, <<2, 2, 2, 2>>,
      <<3, 1, 2, 1>>, <<3, 1, 2, 2>>, <<2, 1, 0, 1>>, <<1, 1, 9, 2>> }

\* what a CuckooFilter constructor is given: those, and four buckets of one
\* slot, where a fingerprint kicked twice comes to rest in a third bucket
CuckooFilterArgs == ConstructorArgs \cup { <<4, 1, 2, 2>> }

None == [status |-> "none"]

----------------------------------------------------------------------------
(* Unsigned arithmetic. *)

RECURSIVE Pow2(_)
Pow2(n) == IF n = 0 THEN 1 ELSE 2 * Pow2(n - 1)

\* a ^ b on unsigned integers
RECURSIVE BitXor(_, _)
BitXor(a, b) ==
    IF a = 0 THEN b
    ELSE IF b = 0 THEN a
    ELSE (((a % 2) + (b % 2)) % 2) + 2 * BitXor(a \div 2, b \div 2)

\* sizeof(size_t): the width in bytes of every count in a stream
WordSize == 8

\* the bytes fwrite(&v, sizeof(size_t), 1, fp) puts on the stream (little-endian)
RECURSIVE WordBytes(_, _)
WordBytes(v, n) ==
    IF n = 0 THEN <<>> ELSE <<(v % 256)>> \o WordBytes(v \div 256, n - 1)

Word(v) == WordBytes(v, WordSize)

\* the value fread(&v, sizeof(size_t), 1, fp) finds in the bytes b
RECURSIVE WordValue(_)
WordValue(b) ==
    IF b = <<>> THEN 0 ELSE b[1] + 256 * WordValue(Tail(b))

\* std::hash<uint8_t>{}(fp)
HashU8(fp) == fp

----------------------------------------------------------------------------
(* CuckooFilter.  buckets_ is the flat array of bucket_count * bucket_size  *)
(* bytes, indexed from 0 as in the code.                                    *)

\* CuckooFilter::CuckooFilter(bucket_count, bucket_size, fingerprint_size, max_kicks)
CFConstruct(B, s, f, K) ==
    IF f = 0 \/ f > 8
    THEN [status |-> "invalid_argument"]
    ELSE [status |-> "ok", bucket_count |-> B, bucket_size |-> s,
          fingerprint_size |-> f, max_kicks |-> K,
          buckets |-> [i \in 0..(B * s - 1) |-> 0]]

\* CuckooFilter::fingerprint: the low fingerprint_size bits, as a uint8_t, 0 -> 1
CFfingerprint(c, h) ==
    LET fp == (h % Pow2(c.fingerprint_size)) % 256
    IN  IF fp # 0 THEN fp ELSE 1

\* CuckooFilter::index1
CFindex1(c, h) == h % c.bucket_count

\* an index2 that adds where the code takes the exclusive or
CFindex2Sum(c, i1, fp) ==
    (i1 + (HashU8(fp) % c.bucket_count)) % c.bucket_count

\* CuckooFilter::index2
CFindex2(c, i1, fp) ==
    BitXor(i1, HashU8(fp) % c.bucket_count) % c.bucket_count

\* a scan that ends at the last slot of the bucket that holds v
LastSlot(buckets, base, s, v) ==
    IF \E j \in 0..(s - 1) : buckets[base + j] = v
    THEN CHOOSE j \in 0..(s - 1) :
            /\ buckets[base + j] = v
            /\ \A k \in (j + 1)..(s - 1) : buckets[base + k] # v
    ELSE -1

\* the scan for (j = 0; j < bucket_size_; ++j) if (buckets_[base + j] == v):
\* the first slot of the bucket at base that holds v, or -1
FirstSlot(buckets, base, s, v) ==
    IF \E j \in 0..(s - 1) : buckets[base + j] = v
    THEN CHOOSE j \in 0..(s - 1) :
            /\ buckets[base + j] = v
            /\ \A k \in 0..(j - 1) : buckets[base + k] # v
    ELSE -1

\* an eviction loop that stores fp over the victim and keeps fp in hand: an
\* assignment where the code swaps
RECURSIVE CFKickLoopOver(_, _, _, _, _, _)
CFKickLoopOver(c, buckets, idx, fp, kick, victims) ==
    IF kick >= c.max_kicks
    THEN [buckets |-> buckets, ret |-> FALSE, path |-> "full",
          kicks |-> kick, hand |-> fp]
    ELSE LET base   == idx * c.bucket_size
             over   == [buckets EXCEPT ![base + victims[kick + 1]] = fp]
             next   == CFindex2(c, idx, fp)
             j      == FirstSlot(over, next * c.bucket_size, c.bucket_size, 0)
         IN  IF j # -1
             THEN [buckets |-> [over EXCEPT ![next * c.bucket_size + j] = fp],
                   ret |-> TRUE, path |-> "kick", kicks |-> kick + 1, hand |-> fp]
             ELSE CFKickLoopOver(c, over, next, fp, kick + 1, victims)

\* an eviction loop that sends the victim to the bucket index2 gives for the
\* fingerprint that displaced it, where the code gives index2 the victim
RECURSIVE CFKickLoopStray(_, _, _, _, _, _)
CFKickLoopStray(c, buckets, idx, fp, kick, victims) ==
    IF kick >= c.max_kicks
    THEN [buckets |-> buckets, ret |-> FALSE, path |-> "full",
          kicks |-> kick, hand |-> fp]
    ELSE LET base   == idx * c.bucket_size
             victim == victims[kick + 1]
             out    == buckets[base + victim]
             swapped == [buckets EXCEPT ![base + victim] = fp]
             next   == CFindex2(c, idx, fp)
             j      == FirstSlot(swapped, next * c.bucket_size, c.bucket_size, 0)
         IN  IF j # -1
             THEN [buckets |-> [swapped EXCEPT ![next * c.bucket_size + j] = out],
                   ret |-> TRUE, path |-> "kick", kicks |-> kick + 1, hand |-> out]
             ELSE CFKickLoopStray(c, swapped, next, out, kick + 1, victims)

\* an eviction loop that gives up one iteration before max_kicks_
RECURSIVE CFKickLoopShort(_, _, _, _, _, _)
CFKickLoopShort(c, buckets, idx, fp, kick, victims) ==
    IF kick + 1 >= c.max_kicks
    THEN [buckets |-> buckets, ret |-> FALSE, path |-> "full",
          kicks |-> kick, hand |-> fp]
    ELSE LET base   == idx * c.bucket_size
             victim == victims[kick + 1]
             out    == buckets[base + victim]
             swapped == [buckets EXCEPT ![base + victim] = fp]
             next   == CFindex2(c, idx, out)
             j      == FirstSlot(swapped, next * c.bucket_size, c.bucket_size, 0)
         IN  IF j # -1
             THEN [buckets |-> [swapped EXCEPT ![next * c.bucket_size + j] = out],
                   ret |-> TRUE, path |-> "kick", kicks |-> kick + 1, hand |-> out]
             ELSE CFKickLoopShort(c, swapped, next, out, kick + 1, victims)

\* the eviction loop of CuckooFilter::insert from iteration kick on, holding fp
\* at bucket idx; victims[kick + 1] is what dist(rng_) returns in iteration kick
RECURSIVE CFKickLoop(_, _, _, _, _, _)
CFKickLoop(c, buckets, idx, fp, kick, victims) ==
    IF kick >= c.max_kicks
    THEN [buckets |-> buckets, ret |-> FALSE, path |-> "full",
          kicks |-> kick, hand |-> fp]
    ELSE LET base   == idx * c.bucket_size
             victim == victims[kick + 1]
             out    == buckets[base + victim]
             swapped == [buckets EXCEPT ![base + victim] = fp]
             next   == CFindex2(c, idx, out)
             j      == FirstSlot(swapped, next * c.bucket_size, c.bucket_size, 0)
         IN  IF j # -1
             THEN [buckets |-> [swapped EXCEPT ![next * c.bucket_size + j] = out],
                   ret |-> TRUE, path |-> "kick", kicks |-> kick + 1, hand |-> out]
             ELSE CFKickLoop(c, swapped, next, out, kick + 1, victims)

\* CuckooFilter::insert: bit is rng_() & 1
CFInsertOp(c, h, bit, victims) ==
    LET fp == CFfingerprint(c, h)
        i1 == CFindex1(c, h)
        i2 == CFindex2(c, i1, fp)
        j1 == FirstSlot(c.buckets, i1 * c.bucket_size, c.bucket_size, 0)
        j2 == FirstSlot(c.buckets, i2 * c.bucket_size, c.bucket_size, 0)
    IN  IF j1 # -1
        THEN [buckets |-> [c.buckets EXCEPT ![i1 * c.bucket_size + j1] = fp],
              ret |-> TRUE, path |-> "first", kicks |-> 0, hand |-> fp]
        ELSE IF j2 # -1
        THEN [buckets |-> [c.buckets EXCEPT ![i2 * c.bucket_size + j2] = fp],
              ret |-> TRUE, path |-> "alternate", kicks |-> 0, hand |-> fp]
        ELSE CFKickLoop(c, c.buckets, IF bit = 1 THEN i1 ELSE i2, fp, 0, victims)

\* CuckooFilter::contains
CFContains(c, h) ==
    LET fp == CFfingerprint(c, h)
        i1 == CFindex1(c, h)
        i2 == CFindex2(c, i1, fp)
    IN  \/ FirstSlot(c.buckets, i1 * c.bucket_size, c.bucket_size, fp) # -1
        \/ FirstSlot(c.buckets, i2 * c.bucket_size, c.bucket_size, fp) # -1

\* an erase that scans bucket i2 before bucket i1
CFEraseOpAlternate(c, h) ==
    LET fp == CFfingerprint(c, h)
        i1 == CFindex1(c, h)
        i2 == CFindex2(c, i1, fp)
        j1 == FirstSlot(c.buckets, i1 * c.bucket_size, c.bucket_size, fp)
        j2 == FirstSlot(c.buckets, i2 * c.bucket_size, c.bucket_size, fp)
    IN  IF j2 # -1
        THEN [buckets |-> [c.buckets EXCEPT ![i2 * c.bucket_size + j2] = 0],
              ret |-> TRUE]
        ELSE IF j1 # -1
        THEN [buckets |-> [c.buckets EXCEPT ![i1 * c.bucket_size + j1] = 0],
              ret |-> TRUE]
        ELSE [buckets |-> c.buckets, ret |-> FALSE]

\* CuckooFilter::erase
CFEraseOp(c, h) ==
    LET fp == CFfingerprint(c, h)
        i1 == CFindex1(c, h)
        i2 == CFindex2(c, i1, fp)
        j1 == FirstSlot(c.buckets, i1 * c.bucket_size, c.bucket_size, fp)
        j2 == FirstSlot(c.buckets, i2 * c.bucket_size, c.bucket_size, fp)
    IN  IF j1 # -1
        THEN [buckets |-> [c.buckets EXCEPT ![i1 * c.bucket_size + j1] = 0],
              ret |-> TRUE]
        ELSE IF j2 # -1
        THEN [buckets |-> [c.buckets EXCEPT ![i2 * c.bucket_size + j2] = 0],
              ret |-> TRUE]
        ELSE [buckets |-> c.buckets, ret |-> FALSE]

\* the non-zero fingerprints of bucket i in slot order: values in CuckooFilter::save
CFBucketValues(c, i) ==
    SelectSeq([j \in 1..c.bucket_size |-> c.buckets[i * c.bucket_size + j - 1]],
              LAMBDA v : v # 0)

\* what CuckooFilter::save writes for bucket i: the count, then the values
CFSaveBucket(c, i) ==
    LET values == CFBucketValues(c, i)
    IN  Word(Len(values)) \o values

\* the loop over the buckets i..bucket_count-1 of CuckooFilter::save
RECURSIVE CFSaveBuckets(_, _)
CFSaveBuckets(c, i) ==
    IF i >= c.bucket_count THEN <<>>
    ELSE CFSaveBucket(c, i) \o CFSaveBuckets(c, i + 1)

\* the bytes CuckooFilter::save writes
CFSaveBytes(c) ==
    Word(c.bucket_count) \o Word(c.bucket_size) \o Word(c.fingerprint_size)
        \o Word(c.max_kicks) \o CFSaveBuckets(c, 0)

\* total += sizeof(sz) + sizeof(uint8_t) * sz over the buckets i.. of
\* CuckooFilter::save
RECURSIVE CFSaveTotal(_, _)
CFSaveTotal(c, i) ==
    IF i >= c.bucket_count THEN 0
    ELSE WordSize + Len(CFBucketValues(c, i)) + CFSaveTotal(c, i + 1)

\* what CuckooFilter::save returns
CFSaveReturn(c) ==
    WordSize + WordSize + WordSize + WordSize + CFSaveTotal(c, 0)

\* the word at position pos (from 1) of a stream
ReadWord(bytes, pos) == WordValue(SubSeq(bytes, pos, pos + WordSize - 1))

\* a store that leaves j out: every fingerprint of bucket i lands in its
\* first slot
CFLoadStoreFirst(c, i, j, fpv) ==
    [c EXCEPT !.buckets[i * c.bucket_size] = fpv]

\* the store buckets_[i * bucket_size_ + j] = fpv of CuckooFilter(FILE*)
CFLoadStore(c, i, j, fpv) ==
    [c EXCEPT !.buckets[i * c.bucket_size + j] = fpv]

\* the loops of CuckooFilter(FILE*) from bucket i on, the stream read up to pos;
\* j counts the fingerprints of bucket i read so far, sz is its count (-1: not read)
RECURSIVE CFLoadBuckets(_, _, _, _, _, _)
CFLoadBuckets(c, bytes, pos, i, j, sz) ==
    IF i >= c.bucket_count THEN c
    ELSE IF sz = -1
    THEN IF pos + WordSize - 1 > Len(bytes)
         THEN [status |-> "bucket_size_read"]
         ELSE CFLoadBuckets(c, bytes, pos + WordSize, i, 0, ReadWord(bytes, pos))
    ELSE IF j >= sz
    THEN CFLoadBuckets(c, bytes, pos, i + 1, 0, -1)
    ELSE IF pos > Len(bytes)
    THEN [status |-> "bucket_data_read"]
    ELSE IF i * c.bucket_size + j >= c.bucket_count * c.bucket_size
    THEN [status |-> "out_of_bounds"]
    ELSE CFLoadBuckets(CFLoadStore(c, i, j, bytes[pos]), bytes, pos + 1, i, j + 1, sz)

\* a constructor from a stream that compares no fread result: a read past the
\* end of the stream leaves the zero the variable held
CFLoadOpUnchecked(bytes) ==
    LET padded == bytes \o [k \in 1..(8 * WordSize) |-> 0]
        B == ReadWord(padded, 1)
        s == ReadWord(padded, 1 + WordSize)
        f == ReadWord(padded, 1 + 2 * WordSize)
        K == ReadWord(padded, 1 + 3 * WordSize)
        fresh == [status |-> "ok", bucket_count |-> B, bucket_size |-> s,
                  fingerprint_size |-> f, max_kicks |-> K,
                  buckets |-> [x \in 0..(B * s - 1) |-> 0]]
    IN  CFLoadBuckets(fresh, padded, 1 + 4 * WordSize, 0, 0, -1)

\* CuckooFilter::CuckooFilter(FILE*)
CFLoadOp(bytes) ==
    IF Len(bytes) < 4 * WordSize
    THEN [status |-> "header_read"]
    ELSE LET B == ReadWord(bytes, 1)
             s == ReadWord(bytes, 1 + WordSize)
             f == ReadWord(bytes, 1 + 2 * WordSize)
             K == ReadWord(bytes, 1 + 3 * WordSize)
             fresh == [status |-> "ok", bucket_count |-> B, bucket_size |-> s,
                       fingerprint_size |-> f, max_kicks |-> K,
                       buckets |-> [x \in 0..(B * s - 1) |-> 0]]
         IN  CFLoadBuckets(fresh, bytes, 1 + 4 * WordSize, 0, 0, -1)

\* the loops of CuckooFilter(FILE*) when a store past the end of buckets_
\* lands in memory that is not the filter's and the constructor goes on
RECURSIVE CFLoadBucketsOn(_, _, _, _, _, _)
CFLoadBucketsOn(c, bytes, pos, i, j, sz) ==
    IF i >= c.bucket_count THEN c
    ELSE IF sz = -1
    THEN IF pos + WordSize - 1 > Len(bytes)
         THEN [status |-> "bucket_size_read"]
         ELSE CFLoadBucketsOn(c, bytes, pos + WordSize, i, 0, ReadWord(bytes, pos))
    ELSE IF j >= sz
    THEN CFLoadBucketsOn(c, bytes, pos, i + 1, 0, -1)
    ELSE IF pos > Len(bytes)
    THEN [status |-> "bucket_data_read"]
    ELSE IF i * c.bucket_size + j >= c.bucket_count * c.bucket_size
    THEN CFLoadBucketsOn(c, bytes, pos + 1, i, j + 1, sz)
    ELSE CFLoadBucketsOn(CFLoadStore(c, i, j, bytes[pos]), bytes, pos + 1, i,
                         j + 1, sz)

\* what CuckooFilter(FILE*) can give: a store past the end of buckets_ is
\* undefined, the process stops there ("out_of_bounds") or the constructor
\* goes on with its table as the stores inside it left it
CFLoadOutcomes(bytes) ==
    LET r == CFLoadOp(bytes)
    IN  IF r.status # "out_of_bounds" THEN {r}
        ELSE LET B == ReadWord(bytes, 1)
                 s == ReadWord(bytes, 1 + WordSize)
                 f == ReadWord(bytes, 1 + 2 * WordSize)
                 K == ReadWord(bytes, 1 + 3 * WordSize)
                 fresh == [status |-> "ok", bucket_count |-> B, bucket_size |-> s,
                           fingerprint_size |-> f, max_kicks |-> K,
                           buckets |-> [x \in 0..(B * s - 1) |-> 0]]
             IN  {r, CFLoadBucketsOn(fresh, bytes, 1 + 4 * WordSize, 0, 0, -1)}

NoCall == [op |-> "none"]
NoProbe == [key |-> -1, seen |-> <<>>]

\* what an insert(h) that found contains(h) false before it, and returned ret,
\* starts recording; has is contains(h) after the call
ProbeInsert(before, ret, h, has) ==
    IF ~before /\ ret THEN [key |-> h, seen |-> <<has>>] ELSE NoProbe

\* what an erase(h) adds: after the insert its result and contains(h) after it,
\* after that erase its result
ProbeErase(probe, h, ret, has) ==
    IF probe.key = h /\ Len(probe.seen) = 1
    THEN [probe EXCEPT !.seen = @ \o <<ret, has>>]
    ELSE IF probe.key = h /\ Len(probe.seen) = 3
    THEN [probe EXCEPT !.seen = @ \o <<ret>>]
    ELSE NoProbe

CFInit ==
    /\ \E a \in CuckooFilterArgs : cf = CFConstruct(a[1], a[2], a[3], a[4])
    /\ cfInserted = {}
    /\ cfFailed = FALSE
    /\ cfErased = FALSE
    /\ cfCalls = 0
    /\ cfLast = NoCall
    /\ cfProbe = NoProbe
    /\ cfFile = <<>>
    /\ cfSaved = None

CFIdle ==
    /\ cf = None
    /\ cfInserted = {}
    /\ cfFailed = FALSE
    /\ cfErased = FALSE
    /\ cfCalls = 0
    /\ cfLast = NoCall
    /\ cfProbe = NoProbe
    /\ cfFile = <<>>
    /\ cfSaved = None

\* what rng_ may return during cf.insert(h): nothing is drawn when a candidate
\* bucket has an empty slot; else one bit and up to max_kicks victim slots
CFDraws(c, h) ==
    LET fp == CFfingerprint(c, h)
        i1 == CFindex1(c, h)
        i2 == CFindex2(c, i1, fp)
    IN  IF \/ FirstSlot(c.buckets, i1 * c.bucket_size, c.bucket_size, 0) # -1
           \/ FirstSlot(c.buckets, i2 * c.bucket_size, c.bucket_size, 0) # -1
        THEN {[bit |-> 0, victims |-> <<>>]}
        ELSE [bit : {0, 1},
              victims : [1..c.max_kicks -> 0..(c.bucket_size - 1)]]

\* cf.insert(h)
CFInsert(h) ==
    /\ cf.status = "ok"
    /\ cfFile = <<>>
    /\ cfCalls < MaxCalls
    /\ \E d \in CFDraws(cf, h) :
          LET r == CFInsertOp(cf, h, d.bit, d.victims)
              after == [cf EXCEPT !.buckets = r.buckets]
          IN  /\ cf' = after
              /\ cfLast' = [op |-> "insert", ret |-> r.ret, path |-> r.path]
              /\ cfFailed' = (~cfErased /\ (cfFailed \/ ~r.ret))
              /\ cfProbe' = ProbeInsert(CFContains(cf, h), r.ret, h,
                                        CFContains(after, h))
    /\ cfInserted' = IF cfErased THEN {} ELSE cfInserted \cup {h}
    /\ cfCalls' = cfCalls + 1
    /\ cfSaved' = None
    /\ UNCHANGED <<cfErased, cfFile>>
    /\ UNCHANGED <<bfVars, cmVars>>

\* cf.contains(h)
CFContainsCall(h) ==
    /\ cf.status = "ok"
    /\ cfFile = <<>>
    /\ cfLast' = [op |-> "contains", ret |-> CFContains(cf, h)]
    /\ cfSaved' = None
    /\ UNCHANGED <<cf, cfInserted, cfFailed, cfErased, cfCalls, cfProbe, cfFile>>
    /\ UNCHANGED <<bfVars, cmVars>>

\* cf.erase(h)
CFErase(h) ==
    /\ cf.status = "ok"
    /\ cfFile = <<>>
    /\ cfCalls < MaxCalls
    /\ LET r == CFEraseOp(cf, h)
           after == [cf EXCEPT !.buckets = r.buckets]
       IN  /\ cf' = after
           /\ cfLast' = [op |-> "erase", ret |-> r.ret]
           /\ cfProbe' = ProbeErase(cfProbe, h, r.ret, CFContains(after, h))
    /\ cfErased' = TRUE
    /\ cfCalls' = cfCalls + 1
    /\ cfInserted' = {}
    /\ cfFailed' = FALSE
    /\ cfSaved' = None
    /\ UNCHANGED cfFile
    /\ UNCHANGED <<bfVars, cmVars>>

\* cf.save(fp) on a stream that takes every byte
CFSave ==
    /\ cf.status = "ok"
    /\ cfFile = <<>>
    /\ cfFile' = CFSaveBytes(cf)
    /\ cfSaved' = cf
    /\ cfLast' = [op |-> "save", ret |-> CFSaveReturn(cf)]
    /\ UNCHANGED <<cf, cfInserted, cfFailed, cfErased, cfCalls, cfProbe>>
    /\ UNCHANGED <<bfVars, cmVars>>

\* CuckooFilter loaded(fp) on the rewound stream
CFLoad ==
    /\ cfFile # <<>>
    /\ cf' \in CFLoadOutcomes(cfFile)
    /\ cfFile' = <<>>
    /\ cfLast' = [op |-> "load"]
    /\ UNCHANGED <<cfInserted, cfFailed, cfErased, cfCalls, cfProbe, cfSaved>>
    /\ UNCHANGED <<bfVars, cmVars>>

\* the fingerprints in a stream that save did not write
ForeignValues == {1, 2}

\* what such a stream holds for one bucket of s slots: a count up to
\* s + MaxOverrun, then as many fingerprints
ForeignBucket(s) ==
    UNION { { Word(sz) \o data : data \in [1..sz -> ForeignValues] } :
            sz \in 0..(s + MaxOverrun) }

\* the streams of B buckets of s slots
RECURSIVE ForeignBuckets(_, _)
ForeignBuckets(B, s) ==
    IF B = 0 THEN {<<>>}
    ELSE { b \o rest : b \in ForeignBucket(s), rest \in ForeignBuckets(B - 1, s) }

\* streams in the format of CuckooFilter::save, whole, with f = 8 and K = 1:
\* two buckets of one slot, or one bucket of two slots
ForeignStreams ==
    UNION { { Word(a[1]) \o Word(a[2]) \o Word(8) \o Word(1) \o b :
              b \in ForeignBuckets(a[1], a[2]) } :
            a \in { <<2, 1>>, <<1, 2>> } }

\* fopen of a stream that some other writer made, for CuckooFilter(FILE*)
CFOpen(bytes) ==
    /\ cfFile = <<>>
    /\ cfCalls < MaxStreamCalls
    /\ cfFile' = bytes
    /\ cfCalls' = cfCalls + 1
    /\ cfLast' = [op |-> "open"]
    /\ cfSaved' = None
    /\ UNCHANGED <<cf, cfInserted, cfFailed, cfErased, cfProbe>>
    /\ UNCHANGED <<bfVars, cmVars>>

\* streams from elsewhere and the constructor that reads them
CFForeignNext ==
    \/ \E bytes \in ForeignStreams : CFOpen(bytes)
    \/ CFLoad

\* the calls on a CuckooFilter in memory
CFNext ==
    \/ \E h \in Digests : CFInsert(h)
    \/ \E h \in Digests : CFContainsCall(h)
    \/ \E h \in Digests : CFErase(h)

\* the calls that build a CuckooFilter, and its round trip through a stream
CFIONext ==
    \/ \E h \in Digests : CFInsert(h)
    \/ \E h \in Digests : CFErase(h)
    \/ CFSave
    \/ CFLoad

----------------------------------------------------------------------------
(* CuckooMap.  A bucket of buckets_ is a head pointer followed by            *)
(* bucket_size fingerprint bytes: slots is the flat array of the             *)
(* fingerprint bytes (bucket i at i * bucket_size), and heads[i] is the      *)
(* chain bucket i's head pointer leads to, as the sequence of its nodes'     *)
(* fingerprints from the head on.                                            *)

\* CuckooMap::CuckooMap(bucket_count, bucket_size, fingerprint_size, max_kicks)
CMConstruct(B, s, f, K) ==
    [status |-> "ok", bucket_count |-> B, bucket_size |-> s,
     fingerprint_size |-> f, max_kicks |-> K,
     slots |-> [i \in 0..(B * s - 1) |-> 0],
     heads |-> [i \in 0..(B - 1) |-> <<>>]]

\* a fingerprint without the remap of 0 to 1
CMfingerprintRaw(c, h) == (h % Pow2(c.fingerprint_size)) % 256

\* CuckooMap::fingerprint
CMfingerprint(c, h) ==
    LET fp == (h % Pow2(c.fingerprint_size)) % 256
    IN  IF fp # 0 THEN fp ELSE 1

\* CuckooMap::index1
CMindex1(c, h) == h % c.bucket_count

\* CuckooMap::index2
CMindex2(c, i1, fp) ==
    BitXor(i1, HashU8(fp) % c.bucket_count) % c.bucket_count

\* the value the lambda try_slot of CuckooMap::insert stores in the empty slot
\* it finds: it captures fp, the fingerprint of the key being inserted, and
\* cur_fp is the fingerprint in hand
CMTrySlotValue(fp, cur_fp) == fp

\* the lock-step walk while (h1 && h2) of CuckooMap::insert
RECURSIVE CMWalk(_, _)
CMWalk(h1, h2) ==
    IF h1 # <<>> /\ h2 # <<>> THEN CMWalk(Tail(h1), Tail(h2)) ELSE <<h1, h2>>

\* a target that is i1 whenever the walk ends chain i1, chain i2 ended or not
CMSpillTargetFirst(c, i1, i2) ==
    LET w == CMWalk(c.heads[i1], c.heads[i2])
    IN  IF w[1] = <<>> THEN i1 ELSE i2

\* size_t target = (!h1 && h2) ? i1 : i2
CMSpillTarget(c, i1, i2) ==
    LET w == CMWalk(c.heads[i1], c.heads[i2])
    IN  IF w[1] = <<>> /\ w[2] # <<>> THEN i1 ELSE i2

\* an end of CuckooMap::insert that gives up as CuckooFilter::insert does:
\* no node is added and the call returns false
CMSpillFull(c, slots, i1, i2, cur_fp, k) ==
    [slots |-> slots, heads |-> c.heads,
     ret |-> FALSE, path |-> "full", kicks |-> k, hand |-> cur_fp,
     target |-> i2]

\* an end of CuckooMap::insert that links the new node after the last node of
\* the chain
CMSpillTail(c, slots, i1, i2, cur_fp, k) ==
    LET target == CMSpillTarget(c, i1, i2)
    IN  [slots |-> slots,
         heads |-> [c.heads EXCEPT ![target] = @ \o <<cur_fp>>],
         ret |-> TRUE, path |-> "spill", kicks |-> k, hand |-> cur_fp,
         target |-> target]

\* the end of CuckooMap::insert when the loop is exhausted: a new node with
\* cur_fp becomes the head of the target bucket's chain
CMSpill(c, slots, i1, i2, cur_fp, k) ==
    LET target == CMSpillTarget(c, i1, i2)
    IN  [slots |-> slots,
         heads |-> [c.heads EXCEPT ![target] = <<cur_fp>> \o @],
         ret |-> TRUE, path |-> "spill", kicks |-> k, hand |-> cur_fp,
         target |-> target]

\* an eviction loop that spills one iteration before max_kicks_
RECURSIVE CMKickLoopEarly(_, _, _, _, _, _, _, _, _)
CMKickLoopEarly(c, slots, i1, i2, fp, cur_index, cur_fp, k, victims) ==
    IF k + 1 >= c.max_kicks
    THEN CMSpill(c, slots, i1, i2, cur_fp, k)
    ELSE LET base    == cur_index * c.bucket_size
             victim  == victims[k + 1]
             out     == slots[base + victim]
             swapped == [slots EXCEPT ![base + victim] = cur_fp]
             next    == CMindex2(c, cur_index, out)
             j       == FirstSlot(swapped, next * c.bucket_size, c.bucket_size, 0)
         IN  IF j # -1
             THEN [slots |-> [swapped EXCEPT ![next * c.bucket_size + j] =
                                  CMTrySlotValue(fp, out)],
                   heads |-> c.heads,
                   ret |-> TRUE, path |-> "kick", kicks |-> k + 1, hand |-> out,
                   target |-> next]
             ELSE CMKickLoopEarly(c, swapped, i1, i2, fp, next, out, k + 1,
                                  victims)

\* the eviction loop of CuckooMap::insert from iteration k on; victims[k + 1]
\* is rng_() % bucket_size_ in iteration k
RECURSIVE CMKickLoop(_, _, _, _, _, _, _, _, _)
CMKickLoop(c, slots, i1, i2, fp, cur_index, cur_fp, k, victims) ==
    IF k >= c.max_kicks
    THEN CMSpill(c, slots, i1, i2, cur_fp, k)
    ELSE LET base    == cur_index * c.bucket_size
             victim  == victims[k + 1]
             out     == slots[base + victim]
             swapped == [slots EXCEPT ![base + victim] = cur_fp]
             next    == CMindex2(c, cur_index, out)
             j       == FirstSlot(swapped, next * c.bucket_size, c.bucket_size, 0)
         IN  IF j # -1
             THEN [slots |-> [swapped EXCEPT ![next * c.bucket_size + j] =
                                  CMTrySlotValue(fp, out)],
                   heads |-> c.heads,
                   ret |-> TRUE, path |-> "kick", kicks |-> k + 1, hand |-> out,
                   target |-> next]
             ELSE CMKickLoop(c, swapped, i1, i2, fp, next, out, k + 1, victims)

\* CuckooMap::insert: bit is rng_() & 1
CMInsertOp(c, h, bit, victims) ==
    LET fp == CMfingerprint(c, h)
        i1 == CMindex1(c, h)
        i2 == CMindex2(c, i1, fp)
        j1 == FirstSlot(c.slots, i1 * c.bucket_size, c.bucket_size, 0)
        j2 == FirstSlot(c.slots, i2 * c.bucket_size, c.bucket_size, 0)
    IN  IF j1 # -1
        THEN [slots |-> [c.slots EXCEPT ![i1 * c.bucket_size + j1] =
                             CMTrySlotValue(fp, fp)],
              heads |-> c.heads,
              ret |-> TRUE, path |-> "first", kicks |-> 0, hand |-> fp,
              target |-> i1]
        ELSE IF j2 # -1
        THEN [slots |-> [c.slots EXCEPT ![i2 * c.bucket_size + j2] =
                             CMTrySlotValue(fp, fp)],
              heads |-> c.heads,
              ret |-> TRUE, path |-> "alternate", kicks |-> 0, hand |-> fp,
              target |-> i2]
        ELSE CMKickLoop(c, c.slots, i1, i2, fp, IF bit = 1 THEN i1 ELSE i2, fp,
                        0, victims)

\* h->fingerprint == fp for some node of the chain
InChain(chain, fp) == \E n \in 1..Len(chain) : chain[n] = fp

\* the body of the loop for (size_t idx : {i1, i2}) of CuckooMap::contains
CMBucketHas(c, idx, fp) ==
    \/ FirstSlot(c.slots, idx * c.bucket_size, c.bucket_size, fp) # -1
    \/ InChain(c.heads[idx], fp)

\* CuckooMap::contains
CMContains(c, h) ==
    LET fp == CMfingerprint(c, h)
        i1 == CMindex1(c, h)
        i2 == CMindex2(c, i1, fp)
    IN  CMBucketHas(c, i1, fp) \/ CMBucketHas(c, i2, fp)

\* the chain without its first node that holds fp: the unlink of CuckooMap::erase
Unlink(chain, fp) ==
    LET n == CHOOSE n \in 1..Len(chain) :
                 chain[n] = fp /\ \A m \in 1..(n - 1) : chain[m] # fp
    IN  SubSeq(chain, 1, n - 1) \o SubSeq(chain, n + 1, Len(chain))

\* a loop body that walks the chain of the bucket before it scans its slots
CMEraseInChainFirst(c, idx, fp) ==
    LET j == FirstSlot(c.slots, idx * c.bucket_size, c.bucket_size, fp)
    IN  IF InChain(c.heads[idx], fp)
        THEN [slots |-> c.slots,
              heads |-> [c.heads EXCEPT ![idx] = Unlink(@, fp)], ret |-> TRUE]
        ELSE IF j # -1
        THEN [slots |-> [c.slots EXCEPT ![idx * c.bucket_size + j] = 0],
              heads |-> c.heads, ret |-> TRUE]
        ELSE [slots |-> c.slots, heads |-> c.heads, ret |-> FALSE]

\* the body of the loop for (size_t idx : {i1, i2}) of CuckooMap::erase
CMEraseIn(c, idx, fp) ==
    LET j == FirstSlot(c.slots, idx * c.bucket_size, c.bucket_size, fp)
    IN  IF j # -1
        THEN [slots |-> [c.slots EXCEPT ![idx * c.bucket_size + j] = 0],
              heads |-> c.heads, ret |-> TRUE]
        ELSE IF InChain(c.heads[idx], fp)
        THEN [slots |-> c.slots,
              heads |-> [c.heads EXCEPT ![idx] = Unlink(@, fp)], ret |-> TRUE]
        ELSE [slots |-> c.slots, heads |-> c.heads, ret |-> FALSE]

\* CuckooMap::erase
CMEraseOp(c, h) ==
    LET fp == CMfingerprint(c, h)
        i1 == CMindex1(c, h)
        i2 == CMindex2(c, i1, fp)
        r1 == CMEraseIn(c, i1, fp)
    IN  IF r1.ret THEN r1 ELSE CMEraseIn(c, i2, fp)

\* sizeof(Node *), and sizeof(Node): a uint8_t, padding, a pointer
PointerSize == 8
NodeSize == 16

\* the walk while (cur) of CuckooMap::size over one chain
RECURSIVE CMSizeChain(_)
CMSizeChain(chain) ==
    IF chain = <<>> THEN 0 ELSE NodeSize * 8 + CMSizeChain(Tail(chain))

\* the loop of CuckooMap::size over the buckets i..bucket_count-1
RECURSIVE CMSizeChains(_, _)
CMSizeChains(c, i) ==
    IF i >= c.bucket_count THEN 0
    ELSE CMSizeChain(c.heads[i]) + CMSizeChains(c, i + 1)

\* a size that adds sizeof(Node) for a node, in bytes
CMSizeOpBytes(c) ==
    c.bucket_count * (PointerSize + c.bucket_size) * 8
        + (CMSizeChains(c, 0) \div 8)

\* CuckooMap::size
CMSizeOp(c) ==
    c.bucket_count * (PointerSize + c.bucket_size) * 8 + CMSizeChains(c, 0)

\* the s fingerprint bytes of bucket i, zeros included
CMBucketSlots(c, i) ==
    [j \in 1..c.bucket_size |-> c.slots[i * c.bucket_size + j - 1]]

\* what CuckooMap::save writes for bucket i: the slots, the chain length, the chain
CMSaveBucket(c, i) ==
    CMBucketSlots(c, i) \o Word(Len(c.heads[i])) \o c.heads[i]

RECURSIVE CMSaveBuckets(_, _)
CMSaveBuckets(c, i) ==
    IF i >= c.bucket_count THEN <<>>
    ELSE CMSaveBucket(c, i) \o CMSaveBuckets(c, i + 1)

\* the bytes CuckooMap::save writes
CMSaveBytes(c) ==
    Word(c.bucket_count) \o Word(c.bucket_size) \o Word(c.fingerprint_size)
        \o Word(c.max_kicks) \o CMSaveBuckets(c, 0)

\* what CuckooMap::save returns: the sum of the counts fwrite returned
RECURSIVE CMSaveCount(_, _)
CMSaveCount(c, i) ==
    IF i >= c.bucket_count THEN 0
    ELSE c.bucket_size + 1 + Len(c.heads[i]) + CMSaveCount(c, i + 1)

CMSaveReturn(c) == 4 + CMSaveCount(c, 0)

\* a linking that pushes each node read at the head, as a spill does: the
\* chain comes out reversed
CMLoadLinkHead(chain, f) == <<f>> \o chain

\* the linking of a node read by CuckooMap(FILE*): after prev, the tail so far
CMLoadLink(chain, f) == chain \o <<f>>

\* the loop over the buckets of CuckooMap(FILE*) from bucket i on, the stream
\* read up to pos; j counts the nodes of bucket i read so far, chain_len is
\* its count (-1: the bucket's slots and count are not read yet)
RECURSIVE CMLoadBuckets(_, _, _, _, _, _)
CMLoadBuckets(c, bytes, pos, i, j, chain_len) ==
    IF i >= c.bucket_count THEN c
    ELSE IF chain_len = -1
    THEN IF pos + c.bucket_size - 1 > Len(bytes)
         THEN [status |-> "bucket_array_read"]
         ELSE IF pos + c.bucket_size + WordSize - 1 > Len(bytes)
         THEN [status |-> "chain_length_read"]
         ELSE CMLoadBuckets(
                  [c EXCEPT !.slots =
                       [x \in DOMAIN c.slots |->
                           IF x \div c.bucket_size = i
                           THEN bytes[pos + (x % c.bucket_size)]
                           ELSE c.slots[x]]],
                  bytes, pos + c.bucket_size + WordSize, i, 0,
                  ReadWord(bytes, pos + c.bucket_size))
    ELSE IF j >= chain_len
    THEN CMLoadBuckets(c, bytes, pos, i + 1, 0, -1)
    ELSE IF pos > Len(bytes)
    THEN [status |-> "chain_data_read"]
    ELSE CMLoadBuckets([c EXCEPT !.heads[i] = CMLoadLink(@, bytes[pos])],
                       bytes, pos + 1, i, j + 1, chain_len)

\* CuckooMap::CuckooMap(FILE*)
CMLoadOp(bytes) ==
    IF Len(bytes) < 4 * WordSize
    THEN [status |-> "header_read"]
    ELSE LET B == ReadWord(bytes, 1)
             s == ReadWord(bytes, 1 + WordSize)
             f == ReadWord(bytes, 1 + 2 * WordSize)
             K == ReadWord(bytes, 1 + 3 * WordSize)
             fresh == [status |-> "ok", bucket_count |-> B, bucket_size |-> s,
                       fingerprint_size |-> f, max_kicks |-> K,
                       slots |-> [x \in 0..(B * s - 1) |-> 0],
                       heads |-> [x \in 0..(B - 1) |-> <<>>]]
         IN  CMLoadBuckets(fresh, bytes, 1 + 4 * WordSize, 0, 0, -1)

CMInit ==
    /\ \E a \in ConstructorArgs : cm = CMConstruct(a[1], a[2], a[3], a[4])
    /\ cmInserted = {}
    /\ cmFailed = FALSE
    /\ cmErased = FALSE
    /\ cmCalls = 0
    /\ cmLast = NoCall
    /\ cmProbe = NoProbe
    /\ cmFile = <<>>
    /\ cmSaved = None

CMIdle ==
    /\ cm = None
    /\ cmInserted = {}
    /\ cmFailed = FALSE
    /\ cmErased = FALSE
    /\ cmCalls = 0
    /\ cmLast = NoCall
    /\ cmProbe = NoProbe
    /\ cmFile = <<>>
    /\ cmSaved = None

\* what rng_ may return during cm.insert(h): nothing is drawn when a candidate
\* bucket has an empty slot; else one bit and up to max_kicks victim slots
CMDraws(c, h) ==
    LET fp == CMfingerprint(c, h)
        i1 == CMindex1(c, h)
        i2 == CMindex2(c, i1, fp)
    IN  IF \/ FirstSlot(c.slots, i1 * c.bucket_size, c.bucket_size, 0) # -1
           \/ FirstSlot(c.slots, i2 * c.bucket_size, c.bucket_size, 0) # -1
        THEN {[bit |-> 0, victims |-> <<>>]}
        ELSE [bit : {0, 1},
              victims : [1..c.max_kicks -> 0..(c.bucket_size - 1)]]

\* cm.insert(h)
CMInsert(h) ==
    /\ cm.status = "ok"
    /\ cmFile = <<>>
    /\ cmCalls < MaxCalls
    /\ \E d \in CMDraws(cm, h) :
          LET r == CMInsertOp(cm, h, d.bit, d.victims)
              after == [cm EXCEPT !.slots = r.slots, !.heads = r.heads]
          IN  /\ cm' = after
              /\ cmLast' = [op |-> "insert", ret |-> r.ret, path |-> r.path]
              /\ cmFailed' = (~cmErased /\ (cmFailed \/ ~r.ret))
              /\ cmProbe' = ProbeInsert(CMContains(cm, h), r.ret, h,
                                        CMContains(after, h))
    /\ cmInserted' = IF cmErased THEN {} ELSE cmInserted \cup {h}
    /\ cmCalls' = cmCalls + 1
    /\ cmSaved' = None
    /\ UNCHANGED <<cmErased, cmFile>>
    /\ UNCHANGED <<bfVars, cfVars>>

\* a contains that takes out the fingerprint it finds, as erase does
CMContainsTake(h) ==
    /\ cm.status = "ok"
    /\ cmFile = <<>>
    /\ LET r == CMEraseOp(cm, h)
       IN  /\ cm' = [cm EXCEPT !.slots = r.slots, !.heads = r.heads]
           /\ cmLast' = [op |-> "contains", ret |-> r.ret]
    /\ cmSaved' = None
    /\ UNCHANGED <<cmInserted, cmFailed, cmErased, cmCalls, cmProbe, cmFile>>
    /\ UNCHANGED <<bfVars, cfVars>>

\* cm.contains(h)
CMContainsCall(h) ==
    /\ cm.status = "ok"
    /\ cmFile = <<>>
    /\ cmLast' = [op |-> "contains", ret |-> CMContains(cm, h)]
    /\ cmSaved' = None
    /\ UNCHANGED <<cm, cmInserted, cmFailed, cmErased, cmCalls, cmProbe, cmFile>>
    /\ UNCHANGED <<bfVars, cfVars>>

\* cm.erase(h)
CMErase(h) ==
    /\ cm.status = "ok"
    /\ cmFile = <<>>
    /\ cmCalls < MaxCalls
    /\ LET r == CMEraseOp(cm, h)
           after == [cm EXCEPT !.slots = r.slots, !.heads = r.heads]
       IN  /\ cm' = after
           /\ cmLast' = [op |-> "erase", ret |-> r.ret]
           /\ cmProbe' = ProbeErase(cmProbe, h, r.ret, CMContains(after, h))
    /\ cmErased' = TRUE
    /\ cmCalls' = cmCalls + 1
    /\ cmInserted' = {}
    /\ cmFailed' = FALSE
    /\ cmSaved' = None
    /\ UNCHANGED cmFile
    /\ UNCHANGED <<bfVars, cfVars>>

\* cm.save(fp) on a stream that takes every byte
CMSave ==
    /\ cm.status = "ok"
    /\ cmFile = <<>>
    /\ cmFile' = CMSaveBytes(cm)
    /\ cmSaved' = cm
    /\ cmLast' = [op |-> "save", ret |-> CMSaveReturn(cm)]
    /\ UNCHANGED <<cm, cmInserted, cmFailed, cmErased, cmCalls, cmProbe>>
    /\ UNCHANGED <<bfVars, cfVars>>

\* CuckooMap loaded(fp) on the rewound stream
CMLoad ==
    /\ cmFile # <<>>
    /\ cm' = CMLoadOp(cmFile)
    /\ cmFile' = <<>>
    /\ cmLast' = [op |-> "load"]
    /\ UNCHANGED <<cmInserted, cmFailed, cmErased, cmCalls, cmProbe, cmSaved>>
    /\ UNCHANGED <<bfVars, cfVars>>

\* the calls on a CuckooMap in memory
CMNext ==
    \/ \E h \in Digests : CMInsert(h)
    \/ \E h \in Digests : CMContainsCall(h)
    \/ \E h \in Digests : CMErase(h)

\* the calls that build a CuckooMap, and its round trip through a stream
CMIONext ==
    \/ \E h \in Digests : CMInsert(h)
    \/ \E h \in Digests : CMErase(h)
    \/ CMSave
    \/ CMLoad

----------------------------------------------------------------------------
(* 64-bit unsigned arithmetic, on values held as eight little-endian bytes:  *)
(* every operation wraps at 2^64 as uint64_t does.                           *)

U64(n) == Word(n)

\* a + b
RECURSIVE AddBytes(_, _, _)
AddBytes(a, b, carry) ==
    IF a = <<>> THEN <<>>
    ELSE LET t == a[1] + b[1] + carry
         IN  <<(t % 256)>> \o AddBytes(Tail(a), Tail(b), t \div 256)

U64Add(a, b) == AddBytes(a, b, 0)

\* a ^ b
RECURSIVE XorBytes(_, _)
XorBytes(a, b) ==
    IF a = <<>> THEN <<>>
    ELSE <<BitXor(a[1], b[1])>> \o XorBytes(Tail(a), Tail(b))

U64Xor(a, b) == XorBytes(a, b)

\* a >> n
RECURSIVE ShrBytes(_, _, _, _)
ShrBytes(a, q, r, i) ==
    IF i > WordSize THEN <<>>
    ELSE LET lo == IF i + q <= WordSize THEN a[i + q] ELSE 0
             hi == IF i + q + 1 <= WordSize THEN a[i + q + 1] ELSE 0
         IN  <<(lo \div Pow2(r)) + (hi % Pow2(r)) * Pow2(8 - r)>>
                 \o ShrBytes(a, q, r, i + 1)

U64Shr(a, n) == ShrBytes(a, n \div 8, n % 8, 1)

RECURSIVE ColumnSum(_, _, _, _)
ColumnSum(a, b, k, i) ==
    IF i > k THEN 0 ELSE a[i] * b[k + 1 - i] + ColumnSum(a, b, k, i + 1)

RECURSIVE MulColumns(_, _, _, _)
MulColumns(a, b, k, carry) ==
    IF k > WordSize THEN <<>>
    ELSE LET t == carry + ColumnSum(a, b, k, 1)
         IN  <<(t % 256)>> \o MulColumns(a, b, k + 1, t \div 256)

\* a * b
U64Mul(a, b) == MulColumns(a, b, 1, 0)

RECURSIVE ModFrom(_, _, _, _)
ModFrom(a, i, m, r) ==
    IF i = 0 THEN r ELSE ModFrom(a, i - 1, m, (r * 256 + a[i]) % m)

\* a % m, for a small m
U64Mod(a, m) == ModFrom(a, WordSize, m, 0)

\* 0x9e3779b97f4a7c15, 0xbf58476d1ce4e5b9, 0x94d049bb133111eb
Golden == <<21, 124, 74, 127, 185, 121, 55, 158>>
Mix1 == <<185, 229, 228, 28, 109, 71, 88, 191>>
Mix2 == <<235, 17, 49, 19, 187, 73, 208, 148>>

\* splitmix64
splitmix64(x) ==
    LET x1 == U64Add(x, Golden)
        x2 == U64Mul(U64Xor(x1, U64Shr(x1, 30)), Mix1)
        x3 == U64Mul(U64Xor(x2, U64Shr(x2, 27)), Mix2)
    IN  U64Xor(x3, U64Shr(x3, 31))

----------------------------------------------------------------------------
(* BloomFilter.  bits_ is a function from the positions 0..size_-1 to       *)
(* {0, 1}; a block of boost::dynamic_bitset<> is an unsigned long.           *)

\* the (size, hash_count) the constructor is given
BloomArgs == { <<1, 1>>, <<3, 2>>, <<8, 3>>, <<64, 2>>, <<70, 3>> }

\* the digests of the keys given to the Bloom filter
BloomDigests ==
    { U64(0), U64(1), U64(5),
      <<255, 255, 255, 255, 255, 255, 255, 255>>,
      <<239, 205, 171, 137, 103, 69, 35, 1>> }

\* boost::dynamic_bitset<>::bits_per_block
BitsPerBlock == 64

\* BloomFilter::BloomFilter(size, hash_count)
BFConstruct(m, k) ==
    [status |-> "ok", size |-> m, hash_count |-> k,
     bits |-> [p \in 0..(m - 1) |-> 0]]

\* a hash that reduces h1 and h2 modulo size_ before it adds them: the sum
\* never wraps at 2^64
BFhashUnwrapped(c, h1, i) ==
    (U64Mod(h1, c.size) + i * U64Mod(splitmix64(h1), c.size)) % c.size

\* BloomFilter::hash
BFhash(c, h1, i) ==
    LET h2 == splitmix64(h1)
    IN  U64Mod(U64Add(h1, U64Mul(U64(i), h2)), c.size)

\* BloomFilter::insert with the probe index dropped: every round sets the
\* position of round 0
BFInsertPosFirst(c, h1, i) == BFhash(c, h1, 0) % c.size

\* auto h = hash(item, i) % size_ in BloomFilter::insert
BFInsertPos(c, h1, i) == BFhash(c, h1, i) % c.size

\* auto h = hash(item, i) % size_ in BloomFilter::contains
BFContainsPos(c, h1, i) == BFhash(c, h1, i) % c.size

\* an insert that builds the bit array anew from the key's positions
BFInsertOpAnew(c, h1) ==
    LET set == { BFInsertPos(c, h1, i) : i \in 0..(c.hash_count - 1) }
    IN  [c EXCEPT !.bits =
            [p \in DOMAIN c.bits |-> IF p \in set THEN 1 ELSE 0]]

\* BloomFilter::insert
BFInsertOp(c, h1) ==
    LET set == { BFInsertPos(c, h1, i) : i \in 0..(c.hash_count - 1) }
    IN  [c EXCEPT !.bits =
            [p \in DOMAIN c.bits |-> IF p \in set THEN 1 ELSE c.bits[p]]]

\* BloomFilter::contains
BFContains(c, h1) ==
    \A i \in 0..(c.hash_count - 1) : c.bits[BFContainsPos(c, h1, i)] = 1

\* a block count rounded down: the last, partly used block is left out
BFNumBlocksFloor(c) == c.size \div BitsPerBlock

\* bits_.num_blocks()
BFNumBlocks(c) == (c.size + BitsPerBlock - 1) \div BitsPerBlock

\* bit p of bits_ as boost::to_block_range copies it: 0 past the last position
BFBitAt(c, p) == IF p < c.size THEN c.bits[p] ELSE 0

RECURSIVE BitsValue(_, _, _)
BitsValue(c, p, n) ==
    IF n = 0 THEN 0 ELSE BFBitAt(c, p) + 2 * BitsValue(c, p + 1, n - 1)

\* the bytes of block i of bits_ as fwrite puts them on the stream
BFBlockBytes(c, i) ==
    [j \in 1..(BitsPerBlock \div 8) |->
        BitsValue(c, i * BitsPerBlock + 8 * (j - 1), 8)]

RECURSIVE BFSaveBlocks(_, _)
BFSaveBlocks(c, i) ==
    IF i >= BFNumBlocks(c) THEN <<>>
    ELSE BFBlockBytes(c, i) \o BFSaveBlocks(c, i + 1)

\* the bytes BloomFilter::save writes
BFSaveBytes(c) ==
    Word(c.size) \o Word(c.hash_count) \o Word(BFNumBlocks(c))
        \o BFSaveBlocks(c, 0)

\* what BloomFilter::save returns
BFSaveReturn(c) ==
    WordSize + WordSize + WordSize + BFNumBlocks(c) * (BitsPerBlock \div 8)

\* blk & (block_type(1) << b) for block i of the blocks read at pos
BFBlockBit(bytes, pos, i, b) ==
    (bytes[pos + i * (BitsPerBlock \div 8) + (b \div 8)] \div Pow2(b % 8)) % 2

\* the bit BloomFilter(FILE*) gives position p: set when the block holds it
\* and pos < bit_count
BFLoadBit(bytes, pos, nblocks, bit_count, p) ==
    IF /\ p \div BitsPerBlock < nblocks
       /\ BFBlockBit(bytes, pos, p \div BitsPerBlock, p % BitsPerBlock) = 1
       /\ p < bit_count
    THEN 1 ELSE 0

\* BloomFilter::BloomFilter(FILE*)
BFLoadOp(bytes) ==
    IF Len(bytes) < 2 * WordSize
    THEN [status |-> "header_read"]
    ELSE IF Len(bytes) < 3 * WordSize
    THEN [status |-> "block_count_read"]
    ELSE LET bit_count  == ReadWord(bytes, 1)
             hash_count == ReadWord(bytes, 1 + WordSize)
             nblocks    == ReadWord(bytes, 1 + 2 * WordSize)
             pos        == 1 + 3 * WordSize
         IN  IF Len(bytes) < 3 * WordSize + nblocks * (BitsPerBlock \div 8)
             THEN [status |-> "blocks_read"]
             ELSE [status |-> "ok", size |-> bit_count,
                   hash_count |-> hash_count,
                   bits |-> [p \in 0..(bit_count - 1) |->
                                BFLoadBit(bytes, pos, nblocks, bit_count, p)]]

BFInit ==
    /\ \E a \in BloomArgs : bf = BFConstruct(a[1], a[2])
    /\ bfInserted = {}
    /\ bfFile = <<>>
    /\ bfSaved = None
    /\ bfLast = NoCall

BFIdle ==
    /\ bf = None
    /\ bfInserted = {}
    /\ bfFile = <<>>
    /\ bfSaved = None
    /\ bfLast = NoCall

\* bf.insert(h)
BFInsert(h) ==
    /\ bf.status = "ok"
    /\ bfFile = <<>>
    /\ bf' = BFInsertOp(bf, h)
    /\ bfInserted' = bfInserted \cup {h}
    /\ bfLast' = [op |-> "insert"]
    /\ bfSaved' = None
    /\ UNCHANGED bfFile
    /\ UNCHANGED <<cfVars, cmVars>>

\* bf.contains(h)
BFContainsCall(h) ==
    /\ bf.status = "ok"
    /\ bfFile = <<>>
    /\ bfLast' = [op |-> "contains", key |-> h, ret |-> BFContains(bf, h)]
    /\ bfSaved' = None
    /\ UNCHANGED <<bf, bfInserted, bfFile>>
    /\ UNCHANGED <<cfVars, cmVars>>

\* bf.save(fp) on a stream that takes every byte
BFSave ==
    /\ bf.status = "ok"
    /\ bfFile = <<>>
    /\ bfFile' = BFSaveBytes(bf)
    /\ bfSaved' = bf
    /\ bfLast' = [op |-> "save", ret |-> BFSaveReturn(bf)]
    /\ UNCHANGED <<bf, bfInserted>>
    /\ UNCHANGED <<cfVars, cmVars>>

\* BloomFilter loaded(fp) on the rewound stream
BFLoad ==
    /\ bfFile # <<>>
    /\ bf' = BFLoadOp(bfFile)
    /\ bfFile' = <<>>
    /\ bfLast' = [op |-> "load"]
    /\ UNCHANGED <<bfInserted, bfSaved>>
    /\ UNCHANGED <<cfVars, cmVars>>

BFNext ==
    \/ \E h \in BloomDigests : BFInsert(h)
    \/ \E h \in BloomDigests : BFContainsCall(h)
    \/ BFSave
    \/ BFLoad

----------------------------------------------------------------------------
(* Streams that fail.  A stream of capacity cap takes the first cap bytes    *)
(* written to it and nothing after them: an fwrite that does not fit stores  *)
(* fewer items than it was given.  A null FILE* is a call of its own.        *)

\* what a stream of capacity cap holds after bytes were written to it
StreamTake(bytes, cap) == SubSeq(bytes, 1, cap)

\* how many of n items of size bytes each fit in room bytes: fwrite's result
Fit(n, size, room) ==
    IF room <= 0 THEN 0
    ELSE IF room \div size < n THEN room \div size ELSE n

\* BloomFilter::save on a stream of capacity cap: the check that throws
BFSaveError(c, cap) ==
    IF cap < 2 * WordSize THEN "header_write"
    ELSE IF cap < 3 * WordSize THEN "block_count_write"
    ELSE IF Fit(BFNumBlocks(c), BitsPerBlock \div 8, cap - 3 * WordSize)
                # BFNumBlocks(c)
    THEN "blocks_write"
    ELSE "none"

\* the bucket loop of CuckooFilter::save from bucket i on, pos bytes written
RECURSIVE CFSaveErrorFrom(_, _, _, _)
CFSaveErrorFrom(c, cap, i, pos) ==
    IF i >= c.bucket_count THEN "none"
    ELSE LET sz == Len(CFBucketValues(c, i))
         IN  IF Fit(1, WordSize, cap - pos) # 1 THEN "bucket_size_write"
             ELSE IF sz > 0 /\ Fit(sz, 1, cap - (pos + WordSize)) # sz
             THEN "bucket_data_write"
             ELSE CFSaveErrorFrom(c, cap, i + 1, pos + WordSize + sz)

\* CuckooFilter::save on a stream of capacity cap: the check that throws
CFSaveError(c, cap) ==
    IF cap < 4 * WordSize THEN "header_write"
    ELSE CFSaveErrorFrom(c, cap, 0, 4 * WordSize)

\* CuckooMap::save on a stream of capacity cap: no fwrite result is compared
\* with the count asked for, so nothing throws
CMSaveError(c, cap) == "none"

\* written after the bucket loop of CuckooMap::save from bucket i on
RECURSIVE CMSaveItemsFrom(_, _, _, _)
CMSaveItemsFrom(c, cap, i, pos) ==
    IF i >= c.bucket_count THEN 0
    ELSE LET s   == c.bucket_size
             len == Len(c.heads[i])
         IN  Fit(s, 1, cap - pos)
                 + Fit(1, WordSize, cap - (pos + s))
                 + Fit(len, 1, cap - (pos + s + WordSize))
                 + CMSaveItemsFrom(c, cap, i + 1, pos + s + WordSize + len)

\* what CuckooMap::save returns on a stream of capacity cap
CMSaveItems(c, cap) ==
    Fit(1, WordSize, cap) + Fit(1, WordSize, cap - WordSize)
        + Fit(1, WordSize, cap - 2 * WordSize)
        + Fit(1, WordSize, cap - 3 * WordSize)
        + CMSaveItemsFrom(c, cap, 0, 4 * WordSize)

\* the instance a constructor from a null FILE* leaves: none, it throws
NullFile == [status |-> "null_file"]

\* bf.save(fp) on a stream that takes cap bytes, fewer than save writes
BFSaveShort(cap) ==
    /\ bf.status = "ok"
    /\ bfFile = <<>>
    /\ cap < Len(BFSaveBytes(bf))
    /\ bfFile' = StreamTake(BFSaveBytes(bf), cap)
    /\ bfSaved' = bf
    /\ bfLast' = [op |-> "save_short", error |-> BFSaveError(bf, cap)]
    /\ UNCHANGED <<bf, bfInserted>>
    /\ UNCHANGED <<cfVars, cmVars>>

\* bf.save(nullptr)
BFSaveNull ==
    /\ bf.status = "ok"
    /\ bfFile = <<>>
    /\ bfLast' = [op |-> "save_null", error |-> "null"]
    /\ bfSaved' = None
    /\ UNCHANGED <<bf, bfInserted, bfFile>>
    /\ UNCHANGED <<cfVars, cmVars>>

\* BloomFilter loaded(nullptr)
BFLoadNull ==
    /\ bf.status = "ok"
    /\ bfFile = <<>>
    /\ bf' = NullFile
    /\ bfLast' = [op |-> "load_null"]
    /\ bfSaved' = None
    /\ UNCHANGED <<bfInserted, bfFile>>
    /\ UNCHANGED <<cfVars, cmVars>>

\* cf.save(fp) on a stream that takes cap bytes, fewer than save writes
CFSaveShort(cap) ==
    /\ cf.status = "ok"
    /\ cfFile = <<>>
    /\ cap < Len(CFSaveBytes(cf))
    /\ cfFile' = StreamTake(CFSaveBytes(cf), cap)
    /\ cfSaved' = cf
    /\ cfLast' = [op |-> "save_short", error |-> CFSaveError(cf, cap)]
    /\ UNCHANGED <<cf, cfInserted, cfFailed, cfErased, cfCalls, cfProbe>>
    /\ UNCHANGED <<bfVars, cmVars>>

\* cf.save(nullptr)
CFSaveNull ==
    /\ cf.status = "ok"
    /\ cfFile = <<>>
    /\ cfLast' = [op |-> "save_null", error |-> "null"]
    /\ cfSaved' = None
    /\ UNCHANGED <<cf, cfInserted, cfFailed, cfErased, cfCalls, cfProbe, cfFile>>
    /\ UNCHANGED <<bfVars, cmVars>>

\* CuckooFilter loaded(nullptr)
CFLoadNull ==
    /\ cf.status = "ok"
    /\ cfFile = <<>>
    /\ cf' = NullFile
    /\ cfLast' = [op |-> "load_null"]
    /\ cfSaved' = None
    /\ UNCHANGED <<cfInserted, cfFailed, cfErased, cfCalls, cfProbe, cfFile>>
    /\ UNCHANGED <<bfVars, cmVars>>

\* cm.save(fp) on a stream that takes cap bytes, fewer than save writes
CMSaveShort(cap) ==
    /\ cm.status = "ok"
    /\ cmFile = <<>>
    /\ cap < Len(CMSaveBytes(cm))
    /\ cmFile' = StreamTake(CMSaveBytes(cm), cap)
    /\ cmSaved' = cm
    /\ cmLast' = [op |-> "save_short", error |-> CMSaveError(cm, cap),
                  ret |-> CMSaveItems(cm, cap)]
    /\ UNCHANGED <<cm, cmInserted, cmFailed, cmErased, cmCalls, cmProbe>>
    /\ UNCHANGED <<bfVars, cfVars>>

\* cm.save(nullptr)
CMSaveNull ==
    /\ cm.status = "ok"
    /\ cmFile = <<>>
    /\ cmLast' = [op |-> "save_null", error |-> "null"]
    /\ cmSaved' = None
    /\ UNCHANGED <<cm, cmInserted, cmFailed, cmErased, cmCalls, cmProbe, cmFile>>
    /\ UNCHANGED <<bfVars, cfVars>>

\* CuckooMap loaded(nullptr)
CMLoadNull ==
    /\ cm.status = "ok"
    /\ cmFile = <<>>
    /\ cm' = NullFile
    /\ cmLast' = [op |-> "load_null"]
    /\ cmSaved' = None
    /\ UNCHANGED <<cmInserted, cmFailed, cmErased, cmCalls, cmProbe, cmFile>>
    /\ UNCHANGED <<bfVars, cfVars>>

\* the capacities of the streams that fail: at least one byte, fewer than
\* save writes
BFCaps == IF bf.status = "ok" THEN 1..(Len(BFSaveBytes(bf)) - 1) ELSE {}
CFCaps == IF cf.status = "ok" THEN 1..(Len(CFSaveBytes(cf)) - 1) ELSE {}
CMCaps == IF cm.status = "ok" THEN 1..(Len(CMSaveBytes(cm)) - 1) ELSE {}

\* the calls that build a filter of one of the three types, by at most
\* MaxStreamCalls inserts, save it to a stream that fails or to no stream, and
\* load from what was stored
StreamNext ==
    \/ \E h \in BloomDigests :
          Cardinality(bfInserted) < MaxStreamCalls /\ BFInsert(h)
    \/ \E cap \in BFCaps : BFSaveShort(cap)
    \/ BFSaveNull
    \/ BFLoad
    \/ BFLoadNull
    \/ \E h \in Digests : cfCalls < MaxStreamCalls /\ CFInsert(h)
    \/ \E cap \in CFCaps : CFSaveShort(cap)
    \/ CFSaveNull
    \/ CFLoad
    \/ CFLoadNull
    \/ \E h \in Digests : cmCalls < MaxStreamCalls /\ CMInsert(h)
    \/ \E cap \in CMCaps : CMSaveShort(cap)
    \/ CMSaveNull
    \/ CMLoad
    \/ CMLoadNull

----------------------------------------------------------------------------
(* The specifications. *)

\* one BloomFilter, no cuckoo filter
BFStart == BFInit /\ CFIdle /\ CMIdle

\* one CuckooFilter, no other filter
CFStart == CFInit /\ BFIdle /\ CMIdle

\* one CuckooMap, no other filter
CMStart == CMInit /\ BFIdle /\ CFIdle

SpecBF == BFStart /\ [][BFNext]_vars

SpecCF == CFStart /\ [][CFNext]_vars

SpecCFIO == CFStart /\ [][CFIONext]_vars

SpecCM == CMStart /\ [][CMNext]_vars

SpecCMIO == CMStart /\ [][CMIONext]_vars

\* the calls on a new filter of one of the three types: contains, and the
\* first inserts
FreshNext ==
    \/ \E h \in BloomDigests :
          Cardinality(bfInserted) < MaxStreamCalls /\ BFInsert(h)
    \/ \E h \in BloomDigests : BFContainsCall(h)
    \/ \E h \in Digests : cfCalls < MaxStreamCalls /\ CFInsert(h)
    \/ \E h \in Digests : CFContainsCall(h)
    \/ \E h \in Digests : cmCalls < MaxStreamCalls /\ CMInsert(h)
    \/ \E h \in Digests : CMContainsCall(h)

\* a few inserts, then contains and save, on a filter of any type
ReadNext ==
    \/ \E h \in BloomDigests :
          Cardinality(bfInserted) < MaxStreamCalls /\ BFInsert(h)
    \/ \E h \in BloomDigests : BFContainsCall(h)
    \/ BFSave
    \/ \E h \in Digests : cfCalls < MaxStreamCalls /\ CFInsert(h)
    \/ \E h \in Digests : CFContainsCall(h)
    \/ CFSave
    \/ \E h \in Digests : cmCalls < MaxStreamCalls /\ CMInsert(h)
    \/ \E h \in Digests : CMContainsCall(h)
    \/ CMSave

\* one filter of one of the three types
StreamStart == BFStart \/ CFStart \/ CMStart

SpecStream == StreamStart /\ [][StreamNext]_vars

SpecFresh == StreamStart /\ [][FreshNext]_vars

SpecRead == StreamStart /\ [][ReadNext]_vars

SpecCFForeign == CFStart /\ [][CFForeignNext]_vars

----------------------------------------------------------------------------

(* The properties.  Each is stated for the specification named with it. *)

\* C1 (SpecCF): CuckooFilter, any valid configuration with K >= 1, any random
\* choices: after insert calls only, all of which returned true, contains(x)
\* is true for every key x that was passed to insert.
C1_NoFalseNegatives ==
    (cf.status = "ok" /\ cf.max_kicks >= 1 /\ ~cfErased /\ ~cfFailed)
        => \A h \in cfInserted : CFContains(cf, h)

\* C2 (SpecCM): CuckooMap, any configuration with 1 <= f <= 8, any random
\* choices: after insert calls only, contains(x) is true for every key x that
\* was passed to insert, kicked or spilled fingerprints included.
C2_NoFalseNegatives ==
    (cm.status = "ok" /\ cm.fingerprint_size \in 1..8 /\ ~cmErased)
        => \A h \in cmInserted : CMContains(cm, h)

\* C3 (SpecBF): BloomFilter: contains(x) is true for every key x that was
\* inserted, and a contains that returns false was given a key that was never
\* inserted.
C3_NoFalseNegatives ==
    bf.status = "ok" =>
        /\ \A h \in bfInserted : BFContains(bf, h)
        /\ (bfLast.op = "contains" /\ ~bfLast.ret) => bfLast.key \notin bfInserted

\* C3: a contains has returned false on a filter with several probes per key
\* that holds at least two keys
C3_Witness ==
    /\ bfLast.op = "contains"
    /\ ~bfLast.ret
    /\ bf.hash_count >= 2
    /\ Cardinality(bfInserted) >= 2

\* C4 (SpecCM): CuckooMap::insert returns true, whatever the key, the state
\* and the kick limit.
C4_InsertReturnsTrue == cmLast.op = "insert" => cmLast.ret

\* C4: an insert whose kicks placed nothing has spilled to a chain and
\* returned true
C4_Witness ==
    /\ cmLast.op = "insert"
    /\ cmLast.path = "spill"
    /\ cmLast.ret
    /\ cm.max_kicks >= 1
    /\ \E i \in DOMAIN cm.heads : cm.heads[i] # <<>>

\* C5 (SpecCF): CuckooFilter: when contains(x) is false and insert(x) returns
\* true, contains(x) is true after it, the next erase(x) returns true and
\* leaves contains(x) false, and a second erase(x) returns false.
C5_InsertEraseErase ==
    /\ Len(cfProbe.seen) >= 1 => cfProbe.seen[1]
    /\ Len(cfProbe.seen) >= 3 => cfProbe.seen[2] /\ ~cfProbe.seen[3]
    /\ Len(cfProbe.seen) >= 4 => ~cfProbe.seen[4]

\* C6 (SpecCM): CuckooMap with 1 <= f <= 8: when contains(x) is false, insert(x)
\* followed by erase(x) makes erase return true and leaves contains(x) false,
\* and a second erase(x) returns false.
C6_InsertEraseErase ==
    cm.fingerprint_size \in 1..8 =>
        /\ Len(cmProbe.seen) >= 3 => cmProbe.seen[2] /\ ~cmProbe.seen[3]
        /\ Len(cmProbe.seen) >= 4 => ~cmProbe.seen[4]

\* the number of times v occurs in seq
Occurrences(seq, v) == Cardinality({ k \in DOMAIN seq : seq[k] = v })

\* bucket i of c holds its non-zero fingerprints in its first slots
Compacted(c, i) ==
    \A j \in 0..(c.bucket_size - 1) :
        c.buckets[i * c.bucket_size + j] # 0 <=> j < Len(CFBucketValues(c, i))

\* C7 (SpecCFIO): CuckooFilter: save then load gives a filter with the same
\* B, s, f and K, whose every bucket holds the same multiset of non-zero
\* fingerprints, in its first slots; contains(x) and erase(x) return on it
\* what they return on the saved filter, for every key x.
C7_RoundTrip ==
    cfLast.op = "load" =>
        /\ cf.status = "ok"
        /\ cf.bucket_count = cfSaved.bucket_count
        /\ cf.bucket_size = cfSaved.bucket_size
        /\ cf.fingerprint_size = cfSaved.fingerprint_size
        /\ cf.max_kicks = cfSaved.max_kicks
        /\ \A i \in 0..(cf.bucket_count - 1) :
              /\ Compacted(cf, i)
              /\ \A v \in 1..255 :
                    Occurrences(CFBucketValues(cf, i), v)
                        = Occurrences(CFBucketValues(cfSaved, i), v)
        /\ \A h \in Digests :
              /\ CFContains(cf, h) = CFContains(cfSaved, h)
              /\ CFEraseOp(cf, h).ret = CFEraseOp(cfSaved, h).ret

\* C7: a filter was loaded whose saved original had an empty slot before an
\* occupied one, so that the load moved a fingerprint
C7_Witness ==
    /\ cfLast.op = "load"
    /\ cf.status = "ok"
    /\ \E i \in 0..(cfSaved.bucket_count - 1) : ~Compacted(cfSaved, i)
    /\ cf.buckets # cfSaved.buckets

\* C8 (SpecCMIO): CuckooMap: save then load gives a map with the same B, s, f
\* and K, the same value in every primary slot, zeros included, and for every
\* bucket the same chain from head to tail; contains(x) is unchanged for
\* every key x.
C8_RoundTrip ==
    cmLast.op = "load" =>
        /\ cm.status = "ok"
        /\ cm.bucket_count = cmSaved.bucket_count
        /\ cm.bucket_size = cmSaved.bucket_size
        /\ cm.fingerprint_size = cmSaved.fingerprint_size
        /\ cm.max_kicks = cmSaved.max_kicks
        /\ cm.slots = cmSaved.slots
        /\ cm.heads = cmSaved.heads
        /\ \A h \in Digests : CMContains(cm, h) = CMContains(cmSaved, h)

\* C8: a map was loaded that has an empty primary slot and a chain of two
\* different fingerprints
C8_Witness ==
    /\ cmLast.op = "load"
    /\ cm.status = "ok"
    /\ \E x \in DOMAIN cm.slots : cm.slots[x] = 0
    /\ \E i \in DOMAIN cm.heads :
          Len(cm.heads[i]) >= 2 /\ cm.heads[i][1] # cm.heads[i][2]

\* C9 (SpecBF): BloomFilter: save then load gives a filter with the same m
\* and k and the same bit at every position below m; contains(x) is
\* unchanged for every key x, inserted or not.
C9_RoundTrip ==
    bfLast.op = "load" =>
        /\ bf.status = "ok"
        /\ bf.size = bfSaved.size
        /\ bf.hash_count = bfSaved.hash_count
        /\ \A p \in 0..(bf.size - 1) : bf.bits[p] = bfSaved.bits[p]
        /\ \A h \in BloomDigests : BFContains(bf, h) = BFContains(bfSaved, h)

\* C9: a filter of more than one block was loaded, with a bit set in its
\* last block, holding one key and not another
C9_Witness ==
    /\ bfLast.op = "load"
    /\ bf.status = "ok"
    /\ bf.size > BitsPerBlock
    /\ \E p \in BitsPerBlock..(bf.size - 1) : bf.bits[p] = 1
    /\ \E h \in BloomDigests : BFContains(bf, h)
    /\ \E h \in BloomDigests : ~BFContains(bf, h)

\* C10 (SpecCM): no CuckooFilter and no CuckooMap instance exists with a
\* fingerprint width outside 1..8: the constructors reject it.
C10_RejectsFingerprintWidth ==
    /\ cf.status = "ok" => cf.fingerprint_size \in 1..8
    /\ cm.status = "ok" => cm.fingerprint_size \in 1..8

\* C11 (SpecStream): a save of any of the three filters to a stream that
\* stores fewer bytes than save writes raises an error: it does not return.
C11_ShortWriteRaises ==
    /\ bfLast.op = "save_short" => bfLast.error # "none"
    /\ cfLast.op = "save_short" => cfLast.error # "none"
    /\ cmLast.op = "save_short" => cmLast.error # "none"

\* C12 (SpecStream): for each of the three filters, save and load with a null
\* FILE* raise an error and no byte is written or read; load from a stream
\* that ends before all that save writes raises an error and gives no filter;
\* a save that raises leaves the filter as it was.
C12_StreamErrors ==
    [][/\ bfLast'.op = "save_null" => bfLast'.error = "null" /\ bfFile' = bfFile
       /\ cfLast'.op = "save_null" => cfLast'.error = "null" /\ cfFile' = cfFile
       /\ cmLast'.op = "save_null" => cmLast'.error = "null" /\ cmFile' = cmFile
       /\ bfLast'.op = "load_null" => bf'.status = "null_file" /\ bfFile' = bfFile
       /\ cfLast'.op = "load_null" => cf'.status = "null_file" /\ cfFile' = cfFile
       /\ cmLast'.op = "load_null" => cm'.status = "null_file" /\ cmFile' = cmFile
       /\ (bfLast'.op = "load" /\ Len(bfFile) < Len(BFSaveBytes(bfSaved)))
              => bf'.status \notin {"ok"}
       /\ (cfLast'.op = "load" /\ Len(cfFile) < Len(CFSaveBytes(cfSaved)))
              => cf'.status \notin {"ok"}
       /\ (cmLast'.op = "load" /\ Len(cmFile) < Len(CMSaveBytes(cmSaved)))
              => cm'.status \notin {"ok"}
       /\ (bfLast'.op \in {"save_short", "save_null"} /\ bfLast'.error # "none")
              => bf' = bf
       /\ (cfLast'.op \in {"save_short", "save_null"} /\ cfLast'.error # "none")
              => cf' = cf
       /\ (cmLast'.op \in {"save_short", "save_null"} /\ cmLast'.error # "none")
              => cm' = cm
      ]_vars

\* C12: a CuckooFilter load stopped in the fingerprints of a bucket, of a
\* stream cut short of what save writes for a filter that holds a key
C12_Witness ==
    /\ cfLast.op = "load"
    /\ cf.status = "bucket_data_read"
    /\ cfSaved.status = "ok"
    /\ \E x \in DOMAIN cfSaved.buckets : cfSaved.buckets[x] # 0

\* C13 (SpecFresh): a filter of any of the three types on which nothing was
\* inserted since its construction has every bit or slot zero and every chain
\* empty, and its contains(x) is false for every key x.
C13_EmptyContainsNothing ==
    /\ (bf.status = "ok" /\ bfInserted = {}) =>
          /\ \A p \in DOMAIN bf.bits : bf.bits[p] = 0
          /\ \A h \in BloomDigests : ~BFContains(bf, h)
          /\ bfLast.op = "contains" => ~bfLast.ret
    /\ (cf.status = "ok" /\ cfCalls = 0) =>
          /\ \A x \in DOMAIN cf.buckets : cf.buckets[x] = 0
          /\ \A h \in Digests : ~CFContains(cf, h)
          /\ cfLast.op = "contains" => ~cfLast.ret
    /\ (cm.status = "ok" /\ cmCalls = 0) =>
          /\ \A x \in DOMAIN cm.slots : cm.slots[x] = 0
          /\ \A i \in DOMAIN cm.heads : cm.heads[i] = <<>>
          /\ \A h \in Digests : ~CMContains(cm, h)
          /\ cmLast.op = "contains" => ~cmLast.ret

\* C13: contains was called on a new CuckooMap
C13_Witness ==
    /\ cm.status = "ok"
    /\ cmCalls = 0
    /\ cmLast.op = "contains"
    /\ ~cmLast.ret

\* C14 (SpecCM): every fingerprint held in a primary slot or an overflow node
\* of a CuckooFilter or a CuckooMap is in 1..2^f - 1, f the fingerprint width
\* of the instance; 0 is held by empty slots only, and by no node.
C14_FingerprintRange ==
    /\ cf.status = "ok" =>
          \A x \in DOMAIN cf.buckets :
              cf.buckets[x] \in 0..(Pow2(cf.fingerprint_size) - 1)
    /\ cm.status = "ok" =>
          /\ \A x \in DOMAIN cm.slots :
                cm.slots[x] \in 0..(Pow2(cm.fingerprint_size) - 1)
          /\ \A i \in DOMAIN cm.heads : \A k \in DOMAIN cm.heads[i] :
                cm.heads[i][k] \in 1..(Pow2(cm.fingerprint_size) - 1)

\* the number of bits of c that are 1
PopCount(c) == Cardinality({ p \in DOMAIN c.bits : c.bits[p] = 1 })

\* C15 (SpecBF): BloomFilter::insert turns no bit from 1 to 0: the number of
\* bits that are 1 does not decrease, and contains(x) stays true once true.
C15_BitsMonotone ==
    [][bfLast'.op = "insert" =>
          /\ \A p \in DOMAIN bf.bits : bf.bits[p] = 1 => bf'.bits[p] = 1
          /\ PopCount(bf') >= PopCount(bf)
          /\ \A h \in BloomDigests : BFContains(bf, h) => BFContains(bf', h)
      ]_vars

\* C15: an insert into a filter that held a key has set a bit that was 0 and
\* left other bits at 1
C15_Witness ==
    /\ bfLast.op = "insert"
    /\ Cardinality(bfInserted) >= 2
    /\ PopCount(bf) > bf.hash_count
    /\ \E p \in DOMAIN bf.bits : bf.bits[p] = 0

\* the number of overflow nodes of the buckets i.. of the map c that hold v
RECURSIVE ChainCount(_, _, _)
ChainCount(c, v, i) ==
    IF i >= c.bucket_count THEN 0
    ELSE Occurrences(c.heads[i], v) + ChainCount(c, v, i + 1)

\* the number of primary slots and overflow nodes of the map c that hold v
CMCount(c, v) ==
    Cardinality({ x \in DOMAIN c.slots : c.slots[x] = v }) + ChainCount(c, v, 0)

\* the fingerprints the map c holds
CMValues(c) ==
    ({ c.slots[x] : x \in DOMAIN c.slots } \ {0})
        \cup UNION { { c.heads[i][k] : k \in DOMAIN c.heads[i] } : i \in DOMAIN c.heads }

\* C16 (SpecCM): CuckooMap with 1 <= f <= 8: an insert(x), whatever the
\* random choices, leaves in the primary slots and overflow chains the
\* fingerprints held before it and one more fingerprint(x): none is lost and
\* none is stored twice.
C16_EvictionConserves ==
    (cm.status = "ok" /\ cm.fingerprint_size \in 1..8) =>
        \A h \in Digests : \A d \in CMDraws(cm, h) :
            LET r == CMInsertOp(cm, h, d.bit, d.victims)
                after == [cm EXCEPT !.slots = r.slots, !.heads = r.heads]
                fp == CMfingerprint(cm, h)
            IN  \A v \in CMValues(cm) \cup CMValues(after) \cup {fp} :
                    CMCount(after, v)
                        = CMCount(cm, v) + (IF v = fp THEN 1 ELSE 0)

\* the number of slots of the table buckets that hold v
CFCount(buckets, v) == Cardinality({ x \in DOMAIN buckets : buckets[x] = v })

\* the fingerprints the table buckets holds
CFValues(buckets) == { buckets[x] : x \in DOMAIN buckets } \ {0}

\* the account of an insert of fp that took the table from before to after,
\* returned ret, and ended with hand in hand, under the kick limit K
Accounted(before, after, fp, ret, hand, K) ==
    LET values == CFValues(before) \cup CFValues(after) \cup {fp, hand}
    IN  IF ret
        THEN \A v \in values :
                CFCount(after, v) = CFCount(before, v) + (IF v = fp THEN 1 ELSE 0)
        ELSE /\ CFCount(after, 0) = CFCount(before, 0)
             /\ \A v \in values :
                   CFCount(after, v) + (IF v = hand THEN 1 ELSE 0)
                       = CFCount(before, v) + (IF v = fp THEN 1 ELSE 0)
             /\ after = before => (K = 0 \/ hand = fp)

\* C17 (SpecCF): CuckooFilter::insert(x), whatever the random choices: when
\* it returns true the table holds the fingerprints it held and one more
\* fingerprint(x); when it returns false as many slots are occupied as
\* before, and the table holds the fingerprints it held, plus fingerprint(x),
\* minus the one in hand after the last kick; it is the same table only if
\* K = 0 or that fingerprint is fingerprint(x).
C17_InsertAccounting ==
    cf.status = "ok" =>
        \A h \in Digests : \A d \in CFDraws(cf, h) :
            LET r == CFInsertOp(cf, h, d.bit, d.victims)
            IN  Accounted(cf.buckets, r.buckets, CFfingerprint(cf, h),
                          r.ret, r.hand, cf.max_kicks)

\* C17: an insert has returned false after kicks, and the table holds every
\* key's fingerprint in some slot no more
C17_Witness ==
    /\ cfLast.op = "insert"
    /\ ~cfLast.ret
    /\ cfLast.path = "full"
    /\ cf.max_kicks >= 1
    /\ \E h \in cfInserted :
          CFCount(cf.buckets, CFfingerprint(cf, h)) = 0

\* B is a power of two
RECURSIVE PowerOfTwo(_)
PowerOfTwo(B) == B = 1 \/ (B > 1 /\ B % 2 = 0 /\ PowerOfTwo(B \div 2))

\* C18 (SpecCF): CuckooFilter with B a power of two, any choice of start
\* bucket and victim slots: after insert calls that all returned true and no
\* erase, contains(x) is true for every inserted key x.
C18_NoFalseNegativesPow2 ==
    (cf.status = "ok" /\ PowerOfTwo(cf.bucket_count) /\ ~cfErased /\ ~cfFailed)
        => \A h \in cfInserted : CFContains(cf, h)

\* C18: in a filter of four buckets an insert has returned true after kicks
\* and some key's fingerprint lies outside the first bucket of that key
C18_Witness ==
    /\ cf.status = "ok"
    /\ cf.bucket_count = 4
    /\ ~cfErased
    /\ ~cfFailed
    /\ cfLast.op = "insert"
    /\ cfLast.path = "kick"
    /\ \E h \in cfInserted :
          FirstSlot(cf.buckets, CFindex1(cf, h) * cf.bucket_size,
                    cf.bucket_size, CFfingerprint(cf, h)) = -1

\* the values of a uint8_t
Bytes == 0..255

\* C19 (SpecFresh): index2 of CuckooFilter and of CuckooMap, for the
\* bucket_count of the filter and for every bucket_count up to MaxBuckets:
\* for every i in 0..B-1 and every fingerprint it returns an index in 0..B-1,
\* and when B is a power of two index2(index2(i, fp), fp) = i.
C19_Index2 ==
    /\ cf.status = "ok" =>
          \A B \in {cf.bucket_count} \cup (1..MaxBuckets) :
              LET c == [cf EXCEPT !.bucket_count = B]
              IN  \A i \in 0..(B - 1) : \A fp \in Bytes :
                      /\ CFindex2(c, i, fp) \in 0..(B - 1)
                      /\ PowerOfTwo(B) => CFindex2(c, CFindex2(c, i, fp), fp) = i
    /\ cm.status = "ok" =>
          \A B \in {cm.bucket_count} \cup (1..MaxBuckets) :
              LET c == [cm EXCEPT !.bucket_count = B]
              IN  \A i \in 0..(B - 1) : \A fp \in Bytes :
                      /\ CMindex2(c, i, fp) \in 0..(B - 1)
                      /\ PowerOfTwo(B) => CMindex2(c, CMindex2(c, i, fp), fp) = i

\* C19: in a filter of four buckets insert has stored the fingerprint of a
\* key in the bucket index2 gives, another than its bucket index1, and index2
\* of that bucket is the bucket index1
C19_Witness ==
    /\ cf.status = "ok"
    /\ cf.bucket_count = 4
    /\ cfLast.op = "insert"
    /\ cfLast.path = "alternate"
    /\ \E h \in cfInserted :
          LET fp == CFfingerprint(cf, h)
              i1 == CFindex1(cf, h)
              i2 == CFindex2(cf, i1, fp)
          IN  /\ i2 # i1
              /\ FirstSlot(cf.buckets, i2 * cf.bucket_size, cf.bucket_size, fp) # -1
              /\ CFindex2(cf, i2, fp) = i1

\* slot j is the lowest-indexed empty slot of bucket i of the table buckets
LowestEmpty(c, i, j) ==
    /\ c.buckets[i * c.bucket_size + j] = 0
    /\ \A k \in 0..(j - 1) : c.buckets[i * c.bucket_size + k] # 0

\* bucket i of the table of c has an empty slot
HasEmpty(c, i) == \E j \in 0..(c.bucket_size - 1) : c.buckets[i * c.bucket_size + j] = 0

\* insert of the key of digest h puts its fingerprint in the lowest-indexed
\* empty slot of bucket i, changes no other slot and returns true, whatever a
\* random number generator would give
PlacedIn(c, h, i) ==
    \A bit \in {0, 1} : \A victims \in [1..c.max_kicks -> 0..(c.bucket_size - 1)] :
        LET r == CFInsertOp(c, h, bit, victims)
        IN  /\ r.ret
            /\ r.kicks = 0
            /\ \E j \in 0..(c.bucket_size - 1) :
                  /\ LowestEmpty(c, i, j)
                  /\ r.buckets = [c.buckets EXCEPT ![i * c.bucket_size + j] =
                                      CFfingerprint(c, h)]

\* C20 (SpecCF): CuckooFilter::insert(x): if bucket i1 of x has an empty slot,
\* fingerprint(x) is written into its lowest-indexed empty slot; otherwise, if
\* bucket i2 has one, into the lowest-indexed empty slot of i2; in both cases
\* insert returns true, no other slot changes, and the outcome is the same
\* for every value a random draw could give.
C20_DirectPlacement ==
    cf.status = "ok" =>
        \A h \in Digests :
            LET i1 == CFindex1(cf, h)
                i2 == CFindex2(cf, i1, CFfingerprint(cf, h))
            IN  /\ HasEmpty(cf, i1) => PlacedIn(cf, h, i1)
                /\ (~HasEmpty(cf, i1) /\ HasEmpty(cf, i2)) => PlacedIn(cf, h, i2)
                /\ (HasEmpty(cf, i1) \/ HasEmpty(cf, i2))
                      => CFDraws(cf, h) = {[bit |-> 0, victims |-> <<>>]}

\* C20: in a filter of two slots a bucket an insert has found the first
\* bucket full and has taken the second slot of the other bucket
C20_Witness ==
    /\ cf.status = "ok"
    /\ cf.bucket_size = 2
    /\ cfLast.op = "insert"
    /\ cfLast.path = "alternate"
    /\ cfLast.ret
    /\ \E i \in 0..(cf.bucket_count - 1) :
          /\ cf.buckets[i * 2] # 0
          /\ cf.buckets[i * 2 + 1] # 0
          /\ \E k \in 0..(cf.bucket_count - 1) : k # i /\ ~HasEmpty(cf, k)

\* bucket i of the primary slots of the map c has an empty slot
CMHasEmpty(c, i) ==
    \E j \in 0..(c.bucket_size - 1) : c.slots[i * c.bucket_size + j] = 0

\* C21 (SpecFresh): every insert of a CuckooFilter and of a CuckooMap ends
\* after at most K swap-and-rescan iterations, and CuckooFilter::insert
\* returns false only when both candidate buckets were full and all K
\* iterations found no empty slot.
C21_InsertBoundedByK ==
    /\ cf.status = "ok" =>
          \A h \in Digests : \A d \in CFDraws(cf, h) :
              LET r  == CFInsertOp(cf, h, d.bit, d.victims)
                  i1 == CFindex1(cf, h)
                  i2 == CFindex2(cf, i1, CFfingerprint(cf, h))
              IN  /\ r.kicks \in 0..cf.max_kicks
                  /\ ~r.ret => /\ ~HasEmpty(cf, i1)
                               /\ ~HasEmpty(cf, i2)
                               /\ r.kicks = cf.max_kicks
    /\ cm.status = "ok" =>
          \A h \in Digests : \A d \in CMDraws(cm, h) :
              LET r == CMInsertOp(cm, h, d.bit, d.victims)
              IN  /\ r.kicks \in 0..cm.max_kicks
                  /\ r.kicks > 0 =>
                        /\ ~CMHasEmpty(cm, CMindex1(cm, h))
                        /\ ~CMHasEmpty(cm, CMindex2(cm, CMindex1(cm, h),
                                                    CMfingerprint(cm, h)))

\* C21: an insert of a CuckooFilter with K >= 1 has returned false, and both
\* candidate buckets of a key it was given are full
C21_Witness ==
    /\ cf.status = "ok"
    /\ cf.max_kicks >= 1
    /\ cfLast.op = "insert"
    /\ ~cfLast.ret
    /\ \E h \in cfInserted :
          /\ ~HasEmpty(cf, CFindex1(cf, h))
          /\ ~HasEmpty(cf, CFindex2(cf, CFindex1(cf, h), CFfingerprint(cf, h)))

\* C22 (SpecCM): when CuckooMap::insert(x) exhausts its K kicks, the new
\* overflow node goes to bucket i1 of x if the chain of i1 is strictly shorter
\* than the chain of i2, and to bucket i2 of x otherwise, i1 and i2 being the
\* candidate buckets of x.
C22_SpillTarget ==
    cm.status = "ok" =>
        \A h \in Digests : \A d \in CMDraws(cm, h) :
            LET r  == CMInsertOp(cm, h, d.bit, d.victims)
                i1 == CMindex1(cm, h)
                i2 == CMindex2(cm, i1, CMfingerprint(cm, h))
                to == IF Len(cm.heads[i1]) < Len(cm.heads[i2]) THEN i1 ELSE i2
            IN  r.path = "spill" =>
                    /\ r.target = to
                    /\ Len(r.heads[to]) = Len(cm.heads[to]) + 1
                    /\ \A i \in DOMAIN cm.heads :
                          i # to => Len(r.heads[i]) = Len(cm.heads[i])

\* C22: an insert has spilled, and the chains of two buckets hold a node
C22_Witness ==
    /\ cm.status = "ok"
    /\ cm.fingerprint_size \in 1..8
    /\ cmLast.op = "insert"
    /\ cmLast.path = "spill"
    /\ \E i, k \in DOMAIN cm.heads :
          i # k /\ cm.heads[i] # <<>> /\ cm.heads[k] # <<>>

\* C23 (SpecCM): a spill of CuckooMap::insert adds exactly one node, with the
\* fingerprint in hand after the K-th kick, as the new head of the chain of
\* the target bucket; the chain it had follows unchanged, no other chain
\* changes, and the primary slots are as the K kicks left them: as many
\* occupied as before the call, holding what they held, plus the fingerprint
\* of the key, minus the fingerprint in hand.
C23_SpillAction ==
    cm.status = "ok" =>
        \A h \in Digests : \A d \in CMDraws(cm, h) :
            LET r  == CMInsertOp(cm, h, d.bit, d.victims)
                fp == CMfingerprint(cm, h)
            IN  r.path = "spill" =>
                    /\ r.heads[r.target] = <<r.hand>> \o cm.heads[r.target]
                    /\ \A i \in DOMAIN cm.heads :
                          i # r.target => r.heads[i] = cm.heads[i]
                    /\ DOMAIN r.heads = DOMAIN cm.heads
                    /\ DOMAIN r.slots = DOMAIN cm.slots
                    /\ \A v \in CFValues(cm.slots) \cup CFValues(r.slots)
                                   \cup {0, fp, r.hand} :
                          CFCount(r.slots, v) + (IF v = r.hand THEN 1 ELSE 0)
                              = CFCount(cm.slots, v) + (IF v = fp THEN 1 ELSE 0)
                    /\ cm.max_kicks = 0 => (r.slots = cm.slots /\ r.hand = fp)

\* C23: an insert has spilled onto a chain that held a node, and the new head
\* is another fingerprint than the node that follows it
C23_Witness ==
    /\ cm.status = "ok"
    /\ cm.fingerprint_size \in 1..8
    /\ cm.max_kicks >= 1
    /\ cmLast.op = "insert"
    /\ cmLast.path = "spill"
    /\ \E i \in DOMAIN cm.heads :
          Len(cm.heads[i]) >= 2 /\ cm.heads[i][1] # cm.heads[i][2]

\* the number of overflow nodes of the map c
RECURSIVE NodesFrom(_, _)
NodesFrom(c, i) ==
    IF i >= c.bucket_count THEN 0 ELSE Len(c.heads[i]) + NodesFrom(c, i + 1)

Nodes(c) == NodesFrom(c, 0)

\* every insert call that takes the map from c to after is one that found
\* both candidate buckets full and no empty slot in any of its K kicks
ExhaustedOnly(c, after) ==
    \A h \in Digests : \A d \in CMDraws(c, h) :
        LET r  == CMInsertOp(c, h, d.bit, d.victims)
            i1 == CMindex1(c, h)
            i2 == CMindex2(c, i1, CMfingerprint(c, h))
        IN  (r.slots = after.slots /\ r.heads = after.heads) =>
                /\ r.path = "spill"
                /\ r.kicks = c.max_kicks
                /\ ~CMHasEmpty(c, i1)
                /\ ~CMHasEmpty(c, i2)

\* C24 (SpecCM): the overflow chains of a CuckooMap grow only on exhausted
\* eviction: an insert changes a chain only if both candidate buckets were
\* full and none of the K kicks found an empty slot, and then it adds one
\* node; an insert that places its fingerprint in a primary slot leaves all
\* chains unchanged; contains and erase never add a node.
C24_ChainsGrowOnlyOnSpill ==
    [][ /\ (cmLast'.op = "insert" /\ cm'.heads # cm.heads) =>
              /\ cmLast'.path = "spill"
              /\ Nodes(cm') = Nodes(cm) + 1
              /\ ExhaustedOnly(cm, cm')
        /\ (cmLast'.op = "insert"
               /\ cmLast'.path \in {"first", "alternate", "kick"}) =>
              cm'.heads = cm.heads
        /\ cmLast'.op \in {"contains", "erase"} =>
              /\ Nodes(cm') <= Nodes(cm)
              /\ \A i \in DOMAIN cm.heads : Len(cm'.heads[i]) <= Len(cm.heads[i])
      ]_vars

\* C24: an insert has placed its fingerprint in a primary slot of a map whose
\* chains hold a node
C24_Witness ==
    /\ cm.status = "ok"
    /\ cm.fingerprint_size \in 1..8
    /\ cmLast.op = "insert"
    /\ cmLast.path \in {"first", "alternate", "kick"}
    /\ Nodes(cm) >= 1

\* the slots of bucket i1, then those of bucket i2, in the order of a scan
ScanOrder(s, i1, i2) ==
    [n \in 1..(2 * s) |-> IF n <= s THEN i1 * s + (n - 1)
                                    ELSE i2 * s + (n - s - 1)]

\* C25 (SpecCF): CuckooFilter::erase(x) returns true exactly when contains(x)
\* was true before it; when true it zeroes one slot, the first that holds
\* fingerprint(x) in a scan of bucket i1 then bucket i2, and changes nothing
\* else; when false the table is unchanged.
C25_EraseFirstMatch ==
    cf.status = "ok" =>
        \A h \in Digests :
            LET r    == CFEraseOp(cf, h)
                fp   == CFfingerprint(cf, h)
                i1   == CFindex1(cf, h)
                scan == ScanOrder(cf.bucket_size, i1, CFindex2(cf, i1, fp))
            IN  /\ r.ret = CFContains(cf, h)
                /\ r.ret =>
                      \E n \in DOMAIN scan :
                          /\ cf.buckets[scan[n]] = fp
                          /\ \A m \in 1..(n - 1) : cf.buckets[scan[m]] # fp
                          /\ r.buckets = [cf.buckets EXCEPT ![scan[n]] = 0]
                /\ ~r.ret => r.buckets = cf.buckets

\* C25: an erase has returned true and has left its key's fingerprint in a
\* slot later in the scan than a slot that is empty
C25_Witness ==
    /\ cf.status = "ok"
    /\ cfLast.op = "erase"
    /\ cfLast.ret
    /\ \E h \in Digests :
          LET fp   == CFfingerprint(cf, h)
              i1   == CFindex1(cf, h)
              i2   == CFindex2(cf, i1, fp)
              scan == ScanOrder(cf.bucket_size, i1, i2)
          IN  /\ i1 # i2
              /\ \E n, m \in DOMAIN scan :
                    m < n /\ cf.buckets[scan[m]] = 0 /\ cf.buckets[scan[n]] = fp

\* a primary slot of bucket i of the map c holds fp
InSlots(c, i, fp) ==
    \E j \in 0..(c.bucket_size - 1) : c.slots[i * c.bucket_size + j] = fp

\* r is c with the first slot of bucket i that holds fp set to 0
SlotErased(c, r, i, fp) ==
    /\ r.heads = c.heads
    /\ \E j \in 0..(c.bucket_size - 1) :
          /\ c.slots[i * c.bucket_size + j] = fp
          /\ \A k \in 0..(j - 1) : c.slots[i * c.bucket_size + k] # fp
          /\ r.slots = [c.slots EXCEPT ![i * c.bucket_size + j] = 0]

\* r is c without the first node of the chain of bucket i that holds fp, the
\* other nodes of the chain in the order they had
NodeErased(c, r, i, fp) ==
    /\ r.slots = c.slots
    /\ \A k \in DOMAIN c.heads : k # i => r.heads[k] = c.heads[k]
    /\ DOMAIN r.heads = DOMAIN c.heads
    /\ \E n \in 1..Len(c.heads[i]) :
          /\ c.heads[i][n] = fp
          /\ \A m \in 1..(n - 1) : c.heads[i][m] # fp
          /\ Len(r.heads[i]) = Len(c.heads[i]) - 1
          /\ \A m \in 1..(n - 1) : r.heads[i][m] = c.heads[i][m]
          /\ \A m \in n..(Len(c.heads[i]) - 1) : r.heads[i][m] = c.heads[i][m + 1]

\* C26 (SpecCM): CuckooMap::erase(x) returns true exactly when contains(x)
\* was true before it; it removes one occurrence of fingerprint(x), the first
\* in the order: primary slots of i1, chain of i1, primary slots of i2, chain
\* of i2; the nodes that remain in a chain keep their order; when it returns
\* false slots and chains are unchanged.
C26_EraseFirstMatch ==
    cm.status = "ok" =>
        \A h \in Digests :
            LET r  == CMEraseOp(cm, h)
                fp == CMfingerprint(cm, h)
                i1 == CMindex1(cm, h)
                i2 == CMindex2(cm, i1, fp)
            IN  /\ r.ret = CMContains(cm, h)
                /\ IF InSlots(cm, i1, fp) THEN r.ret /\ SlotErased(cm, r, i1, fp)
                   ELSE IF InChain(cm.heads[i1], fp)
                        THEN r.ret /\ NodeErased(cm, r, i1, fp)
                   ELSE IF InSlots(cm, i2, fp) THEN r.ret /\ SlotErased(cm, r, i2, fp)
                   ELSE IF InChain(cm.heads[i2], fp)
                        THEN r.ret /\ NodeErased(cm, r, i2, fp)
                   ELSE ~r.ret /\ r.slots = cm.slots /\ r.heads = cm.heads

\* C26: an erase has returned true and has emptied a primary slot of a bucket
\* whose chain holds the same fingerprint
C26_Witness ==
    /\ cm.status = "ok"
    /\ cm.fingerprint_size \in 1..8
    /\ cmLast.op = "erase"
    /\ cmLast.ret
    /\ \E h \in Digests :
          LET fp == CMfingerprint(cm, h)
              i1 == CMindex1(cm, h)
          IN  /\ InChain(cm.heads[i1], fp)
              /\ ~InSlots(cm, i1, fp)
              /\ InSlots(cm, i1, 0)

\* the calls that only read a filter
ReadOps == {"contains", "save"}

RECURSIVE ProbeSum(_, _, _)
ProbeSum(h1, h2, i) ==
    IF i = 0 THEN h1 ELSE U64Add(ProbeSum(h1, h2, i - 1), h2)

\* the positions ((h1 + i * h2) mod 2^64) mod m for i in 0..k-1, with
\* h2 = splitmix64(h1)
ProbePositions(c, h1) ==
    LET h2 == splitmix64(h1)
    IN  { U64Mod(ProbeSum(h1, h2, i), c.size) : i \in 0..(c.hash_count - 1) }

\* C28 (SpecBF): BloomFilter::insert(x) sets, and contains(x) tests, the
\* positions ((h1 + i*h2) mod 2^64) mod m for i in 0..k-1 with
\* h2 = splitmix64(h1) and no other; every position is in 0..m-1; and
\* contains(x) is true iff all of these bits are 1.
C28_ProbeScheme ==
    bf.status = "ok" =>
        \A h \in BloomDigests :
            LET probes == ProbePositions(bf, h)
                after  == BFInsertOp(bf, h)
            IN  /\ probes \subseteq 0..(bf.size - 1)
                /\ DOMAIN after.bits = DOMAIN bf.bits
                /\ \A p \in DOMAIN bf.bits :
                      after.bits[p] = IF p \in probes THEN 1 ELSE bf.bits[p]
                /\ BFContains(bf, h) = (\A p \in probes : bf.bits[p] = 1)

\* C28: a contains has returned true on a filter whose size is not a power of
\* two, for the key of digest 2^64 - 1, whose probes wrap at 2^64
C28_Witness ==
    /\ bf.status = "ok"
    /\ ~PowerOfTwo(bf.size)
    /\ bf.hash_count >= 2
    /\ bfLast.op = "contains"
    /\ bfLast.ret
    /\ bfLast.key = <<255, 255, 255, 255, 255, 255, 255, 255>>
    /\ bfLast.key \in bfInserted

\* the fingerprints a whole stream holds for the buckets i.. of a filter of B
\* buckets, the stream read up to pos: one sequence a bucket
RECURSIVE StreamBuckets(_, _, _, _)
StreamBuckets(bytes, pos, i, B) ==
    IF i >= B THEN <<>>
    ELSE LET sz == ReadWord(bytes, pos)
         IN  <<SubSeq(bytes, pos + WordSize, pos + WordSize + sz - 1)>>
                 \o StreamBuckets(bytes, pos + WordSize + sz, i + 1, B)

\* C29 (SpecCFForeign): CuckooFilter(FILE*), for every whole stream: the
\* fingerprints read for bucket i are written into slots 0..s-1 of bucket i
\* and nowhere else: no store falls past the end of the table, and after the
\* load slot j of bucket i holds the j-th fingerprint the stream has for
\* bucket i, or 0 when the stream has none.
C29_LoadStaysInBucket ==
    [][ cfLast'.op = "load" =>
          LET B    == ReadWord(cfFile, 1)
              s    == ReadWord(cfFile, 1 + WordSize)
              data == StreamBuckets(cfFile, 1 + 4 * WordSize, 0, B)
          IN  /\ cf'.status = "ok"
              /\ \A i \in 0..(B - 1) : \A j \in 0..(s - 1) :
                    cf'.buckets[i * s + j] =
                        IF j < Len(data[i + 1]) THEN data[i + 1][j + 1] ELSE 0
      ]_vars

\* B * (P + s) * 8 + N * nodeBits for the map c
SizeFormula(c) ==
    c.bucket_count * (PointerSize + c.bucket_size) * 8 + Nodes(c) * NodeSize * 8

\* C30 (SpecCM): CuckooMap::size() after any insert and erase calls is
\* B*(P + s)*8 + N*nodeBits, N the number of overflow nodes: a spill raises it
\* by nodeBits, an erase that unlinks a chain node lowers it by nodeBits, and
\* every other call leaves it as it was.
C30_Size ==
    [][ cm.status = "ok" =>
          /\ CMSizeOp(cm) = SizeFormula(cm)
          /\ CMSizeOp(cm') = SizeFormula(cm')
          /\ CMSizeOp(cm') - CMSizeOp(cm) =
                IF cmLast'.op = "insert" /\ cmLast'.path = "spill"
                THEN NodeSize * 8
                ELSE IF cmLast'.op = "erase" /\ cm'.heads # cm.heads
                THEN 0 - NodeSize * 8
                ELSE 0
      ]_vars

\* C30: an erase has unlinked a node of a map that holds another node: no
\* primary slot is empty after it
C30_Witness ==
    /\ cm.status = "ok"
    /\ cm.fingerprint_size \in 1..8
    /\ cmLast.op = "erase"
    /\ cmLast.ret
    /\ Nodes(cm) >= 1
    /\ \A x \in DOMAIN cm.slots : cm.slots[x] # 0
    /\ CMSizeOp(cm) > cm.bucket_count * (PointerSize + cm.bucket_size) * 8

\* C31 (SpecRead): a save of a BloomFilter, a CuckooFilter or a CuckooMap
\* that succeeds returns the number of bytes it wrote to the stream.
C31_SaveReturnsBytes ==
    /\ bfLast.op = "save" => bfLast.ret = Len(bfFile)
    /\ cfLast.op = "save" => cfLast.ret = Len(cfFile)
    /\ cmLast.op = "save" => cmLast.ret = Len(cmFile)

====
